---- MODULE Spec2Model ----
(***************************************************************************)
(* Order lifecycle, payment guard and role scoping of the restaurant       *)
(* management backend (src/src/controllers, src/src/routes).               *)
(*                                                                         *)
(* The persistent store (Prisma over PostgreSQL) is the state.  Every      *)
(* handler is a process: one action per store call it awaits, since the    *)
(* Node event loop may run another request's code at every await.  The     *)
(* code a handler runs before its first store call is local, so it is      *)
(* folded into the action of that first call.  A store call may throw;     *)
(* the handler's catch block then answers 500.                             *)
(*                                                                         *)
(* Money is kept in integer cents.                                         *)
(***************************************************************************)
EXTENDS Integers, Sequences, FiniteSets, TLC

VARIABLES
    orders,         \* Order rows: id -> [status, totalAmount, customerId, branchId]
    orderItems,     \* OrderItem rows by order, in insertion order:
                    \* order id -> <<[menuItemId, quantity, unitPrice, subtotal], ...>>
    payments,       \* Payment rows: id -> [orderId, amount, method, status]
    menu,           \* MenuItem rows: id -> [price, isAvailable]
    nextId,         \* autoincrement counters: [order, payment, inventoryItem, user],
                    \* and the number of reset tokens drawn so far: resetToken
    inventory,      \* InventoryItem rows: id -> [branchId, quantity]
    users,          \* User rows: id -> [username, password, role, branchId,
                    \* failedLoginAttempts, lockedUntil, passwordResetToken,
                    \* resetTokenExpires]
    now,            \* new Date() / Date.now(), in minutes
    failedLogins,   \* history: user id -> logins answered 'incorrect password'
                    \* since the account's last successful login or password reset
    req,            \* requests in flight: slot -> handler position and locals
    resp            \* the response last sent, with the request it answers

vars == <<orders, orderItems, payments, menu, nextId, inventory, users, now,
          failedLogins, req, resp>>
\* the tables of inventory and accounts, with the clock the account handlers read
office == <<inventory, users, now, failedLogins>>
\* everything outside the requests in flight
store == <<orders, orderItems, payments, menu, nextId, office>>

(***************************************************************************)
(* Bounds of the model.                                                    *)
(***************************************************************************)
NumOrders == 1          \* orders the store holds
MaxConcurrent == 2      \* requests in flight at once
MaxItems == 2           \* items in one order or cart request

Slots == 1..MaxConcurrent
Branches == {1, 2}
NoBranch == 0           \* the token carries no branchId (undefined is falsy, as is 0)
MissingOrder == 99      \* an id no order row has: findUnique answers null

(***************************************************************************)
(* The schema's enums.                                                     *)
(***************************************************************************)
Role == {"CUSTOMER", "CHEF", "CASHIER", "BRANCH_MANAGER", "GENERAL_MANAGER", "ADMIN"}
OrderStatus == {"PENDING", "PREPARING", "READY", "DELIVERED", "CANCELLED"}
PaymentMethod == {"CASH", "CREDIT_CARD"}
PaymentStatus == {"PENDING", "COMPLETED", "FAILED", "REFUNDED"}
NoMethod == "NONE"      \* the body carries no method

(***************************************************************************)
(* req.user as authenticateToken builds it from the verified token:        *)
(* {id, role, branchId?}.  Customers 1 and 2 own the orders; staff ids do  *)
(* not matter to the order and payment handlers.                           *)
(***************************************************************************)
Customers == {1, 2}
StaffIds == {9}
Identities ==
    [id : Customers, role : {"CUSTOMER"}, branchId : {NoBranch}]
    \cup [id : StaffIds, role : {"CHEF", "CASHIER", "BRANCH_MANAGER"},
          branchId : Branches \cup {NoBranch}]
    \cup [id : StaffIds, role : {"GENERAL_MANAGER", "ADMIN"}, branchId : {NoBranch}]

\* authorizeRole(roles): the route lets the request through to the handler
authorizeRole(roles, user) == user.role \in roles

(***************************************************************************)
(* Store helpers.                                                          *)
(***************************************************************************)
\* prisma.order.findUnique({ where: { id } }): the row, or null
OrderExists(o) == o \in DOMAIN orders

\* include: { payment: true }: the ids of the payment rows of order o
PaymentsOf(o) == {p \in DOMAIN payments : payments[p].orderId = o}
HasPayment(o) == PaymentsOf(o) # {}
PaymentIdOf(o) == CHOOSE p \in PaymentsOf(o) : \A q \in PaymentsOf(o) : p <= q

\* the sum of the subtotals of a list of order items
RECURSIVE SumSubtotals(_)
SumSubtotals(items) ==
    IF items = <<>> THEN 0
    ELSE Head(items).subtotal + SumSubtotals(Tail(items))

NoPayment == [id |-> 0, amount |-> 0, method |-> "NONE", status |-> "NONE"]
NoCur == [status |-> "NONE", paid |-> FALSE, payment |-> NoPayment]
\* what findUnique({ include: { payment: true } }) hands the handler: the
\* order's status and its payment row (null when it has none)
Snapshot(o) ==
    IF OrderExists(o)
    THEN [status |-> orders[o].status, paid |-> HasPayment(o),
          payment |-> IF HasPayment(o)
                      THEN LET p == PaymentIdOf(o)
                           IN [id |-> p, amount |-> payments[p].amount,
                               method |-> payments[p].method,
                               status |-> payments[p].status]
                      ELSE NoPayment]
    ELSE NoCur

\* null in a DateTime? column
NoDate == 0
NoToken == 0            \* passwordResetToken null, or a body without token
NoName == "NONE"        \* a body without username
NoQuantity == -1        \* a body without quantity (undefined)
NoPassword == <<>>      \* a body without password (or a blank one: both fail ?.trim())

\* A User row that findFirst / findUnique did not find
NoUser == [username |-> NoName, password |-> <<>>, role |-> "NONE", branchId |-> 0,
           failedLoginAttempts |-> 0, lockedUntil |-> NoDate,
           passwordResetToken |-> NoToken, resetTokenExpires |-> NoDate]

\* req.body of the inventory, staff and account handlers as the client sent
\* it; a field the body leaves out is "NONE", 0 or empty
NoData == [username |-> NoName, password |-> NoPassword, role |-> "NONE",
           branchId |-> 0, quantity |-> NoQuantity, token |-> NoToken]

\* the autoincrement counters of a store that has handed out the order ids
\* below order and the payment ids below payment
NextIdFrom(order, payment) ==
    [order |-> order, payment |-> payment, inventoryItem |-> 1, user |-> 1, resetToken |-> 1]

\* req.body of createOrder as the client sent it: branchId and customerId are
\* 0 and deliveryAddress is empty when the body leaves them out
NoBody == [branchId |-> 0, customerId |-> 0, deliveryAddress |-> <<>>]

\* A handler's position and locals.  body is the request as sent; branchId,
\* customerId and items are the values the handler works with (resolved
\* from the body, or query fields); idx, acc and total are the
\* item loop's counter, its list of priced items and its running total;
\* result is the list a query answers with.  For the inventory, staff and
\* account handlers target is the id of the row the request names, data its
\* body, row the User row the handler read (branchId the branch of the
\* inventory item it read) and updateData the values it has made ready for
\* its write.
Idle == [op |-> "idle", pc |-> "idle", user |-> [id |-> 0, role |-> "NONE", branchId |-> 0],
         orderId |-> 0, status |-> "NONE", amount |-> 0, method |-> NoMethod, cur |-> NoCur,
         branchId |-> 0, customerId |-> 0, items |-> <<>>, idx |-> 0, acc |-> <<>>,
         total |-> 0, result |-> {}, writes |-> 0, body |-> NoBody,
         target |-> 0, data |-> NoData, row |-> NoUser, updateData |-> NoUser]

NoResp == [op |-> "none", user |-> [id |-> 0, role |-> "NONE", branchId |-> 0],
           orderId |-> 0, status |-> "NONE", amount |-> 0, method |-> NoMethod,
           cur |-> NoCur, branchId |-> 0, customerId |-> 0, items |-> <<>>,
           result |-> {}, code |-> "NONE", writes |-> 0, body |-> NoBody,
           target |-> 0, data |-> NoData, row |-> NoUser, updateData |-> NoUser]

\* The answer to request r: its inputs, what it read, the response and the
\* number of store writes it performed.
Answer(r, code) ==
    [op |-> r.op, user |-> r.user, orderId |-> r.orderId, status |-> r.status,
     amount |-> r.amount, method |-> r.method, cur |-> r.cur,
     branchId |-> r.branchId, customerId |-> r.customerId, items |-> r.items,
     result |-> r.result, code |-> code, writes |-> r.writes, body |-> r.body,
     target |-> r.target, data |-> r.data, row |-> r.row, updateData |-> r.updateData]

\* res.status(...).json(...): the handler in slot s answers and ends
Reply(s, r, code) ==
    /\ resp' = Answer(r, code)
    /\ req' = [req EXCEPT ![s] = Idle]

\* A handler starts in the lowest free slot (slots are only names for the
\* requests in flight), once the last response has left the server.
Free(s) ==
    /\ resp = NoResp
    /\ req[s] = Idle
    /\ \A q \in Slots : q < s => req[q] # Idle

\* a suspended handler resumes
Resumes(s, op, pc) ==
    /\ resp = NoResp
    /\ req[s].op = op
    /\ req[s].pc = pc

\* The response leaves the server.  resp holds a response only in the state
\* right after the step that sent it, so that state shows the request, what
\* it read and what the store looks like once it has acted.
Deliver ==
    /\ resp # NoResp
    /\ resp' = NoResp
    /\ UNCHANGED <<store, req>>

\* the handler in slot s suspends at its next store call
Await(s, r, pc) ==
    /\ req' = [req EXCEPT ![s] = [r EXCEPT !.pc = pc]]
    /\ UNCHANGED resp

(***************************************************************************)
(* updateOrderStatus (PATCH /api/orders/:id/status).                       *)
(***************************************************************************)
\* a handler that restricts the CASHIER only
RoleMayRequestCashierOnly(role, status) ==
    role = "CASHIER" => status \in {"DELIVERED", "CANCELLED"}

\* the handler's role checks: a CHEF may ask for PREPARING or READY only, a
\* CASHIER for DELIVERED or CANCELLED only
RoleMayRequest(role, status) ==
    /\ (role = "CHEF" => status \in {"PREPARING", "READY"})
    /\ (role = "CASHIER" => status \in {"DELIVERED", "CANCELLED"})

\* a table that lets a PREPARING order be handed over without being READY
validTransitionsLoose(s) ==
    CASE s = "PENDING" -> {"PREPARING", "CANCELLED", "DELIVERED"}
      [] s = "PREPARING" -> {"READY", "CANCELLED", "DELIVERED"}
      [] s = "READY" -> {"DELIVERED", "CANCELLED"}
      [] OTHER -> {}

validTransitions(s) ==
    CASE s = "PENDING" -> {"PREPARING", "CANCELLED", "DELIVERED"}
      [] s = "PREPARING" -> {"READY", "CANCELLED"}
      [] s = "READY" -> {"DELIVERED", "CANCELLED"}
      [] s = "DELIVERED" -> {}
      [] s = "CANCELLED" -> {}
      [] OTHER -> {}

\* a handler that refunds the payment of an order to cancel before it looks
\* at the transition table
UpdateOrderStatusRefundsFirst(s, user, o, status) ==
    /\ Free(s)
    /\ UNCHANGED <<orders, orderItems, menu, nextId, office>>
    /\ LET r == [Idle EXCEPT !.op = "updateOrderStatus", !.user = user,
                             !.orderId = o, !.status = status]
           found == [r EXCEPT !.cur = Snapshot(o)]
       IN IF ~authorizeRole({"CHEF", "CASHIER"}, user) \/ ~RoleMayRequest(user.role, status)
          THEN UNCHANGED payments /\ Reply(s, r, "FORBIDDEN")
          ELSE IF ~OrderExists(o)
          THEN UNCHANGED payments /\ Reply(s, found, "NOT_FOUND")
          ELSE /\ payments' = IF status = "CANCELLED" /\ found.cur.paid
                              THEN [payments EXCEPT ![found.cur.payment.id].status = "REFUNDED"]
                              ELSE payments
               /\ IF status \notin validTransitions(found.cur.status)
                  THEN Reply(s, found, "INVALID_TRANSITION")
                  ELSE Await(s, found, "update")

\* Route check, role checks, findUnique and the transition check: everything
\* up to the handler's first write.
UpdateOrderStatus(s, user, o, status) ==
    /\ Free(s)
    /\ UNCHANGED store
    /\ LET r == [Idle EXCEPT !.op = "updateOrderStatus", !.user = user,
                             !.orderId = o, !.status = status]
           found == [r EXCEPT !.cur = Snapshot(o)]
       IN IF ~authorizeRole({"CHEF", "CASHIER"}, user)
          THEN Reply(s, r, "FORBIDDEN")
          ELSE IF ~RoleMayRequest(user.role, status)
          THEN Reply(s, r, "FORBIDDEN")
          ELSE \/ Reply(s, r, "STORE_ERROR")
               \/ IF ~OrderExists(o)
                  THEN Reply(s, found, "NOT_FOUND")
                  ELSE IF status \notin validTransitions(found.cur.status)
                  THEN Reply(s, found, "INVALID_TRANSITION")
                  ELSE IF status = "CANCELLED" /\ found.cur.paid
                  THEN Await(s, found, "refund")
                  ELSE Await(s, found, "update")

\* prisma.payment.update({ where: { id: currentOrder.payment.id }, data: { status: 'REFUNDED' } })
UpdateOrderStatusRefund(s) ==
    LET r == req[s]
    IN /\ Resumes(s, "updateOrderStatus", "refund")
       /\ UNCHANGED <<orders, orderItems, menu, nextId, office>>
       /\ IF r.cur.payment.id \in DOMAIN payments
          THEN /\ payments' = [payments EXCEPT ![r.cur.payment.id].status = "REFUNDED"]
               /\ Await(s, [r EXCEPT !.writes = @ + 1], "update")
          ELSE /\ UNCHANGED payments
               /\ Reply(s, r, "STORE_ERROR")

\* prisma.order.update({ where: { id }, data: { status } })
UpdateOrderStatusWrite(s) ==
    LET r == req[s]
    IN /\ Resumes(s, "updateOrderStatus", "update")
       /\ UNCHANGED <<orderItems, payments, menu, nextId, office>>
       /\ IF OrderExists(r.orderId)
          THEN /\ orders' = [orders EXCEPT ![r.orderId].status = r.status]
               /\ Reply(s, [r EXCEPT !.writes = @ + 1], "OK")
          ELSE /\ UNCHANGED orders
               /\ Reply(s, r, "STORE_ERROR")

\* The store call a suspended handler waits for throws: the catch block
\* answers 500 and nothing is undone.
StoreError(s) ==
    /\ resp = NoResp
    /\ req[s].pc # "idle"
    /\ UNCHANGED store
    /\ Reply(s, req[s], "STORE_ERROR")

(***************************************************************************)
(* processPayment (POST /api/payments/:orderId).                           *)
(***************************************************************************)
Abs(x) == IF x < 0 THEN -x ELSE x

\* req.body.amount is whatever JSON value the client sent: a number (quoted
\* FALSE, text its decimal digits), a string (quoted TRUE) or nothing at all.
\* Money is counted in cents; NaN is the one number no amount in cents equals.
NaN == -1
NoAmount == [quoted |-> FALSE, text |-> <<>>]
IsDigit(c) == c \in {"0", "1", "2", "3", "4", "5", "6", "7", "8", "9"}
DigitValue(c) ==
    CASE c = "0" -> 0 [] c = "1" -> 1 [] c = "2" -> 2 [] c = "3" -> 3 [] c = "4" -> 4
      [] c = "5" -> 5 [] c = "6" -> 6 [] c = "7" -> 7 [] c = "8" -> 8 [] c = "9" -> 9

\* the digits a text starts with, and their value
RECURSIVE LeadingDigits(_)
LeadingDigits(text) ==
    IF text = <<>> \/ ~IsDigit(Head(text)) THEN <<>>
    ELSE <<Head(text)>> \o LeadingDigits(Tail(text))
RECURSIVE DigitsValue(_)
DigitsValue(ds) ==
    IF ds = <<>> THEN 0
    ELSE 10 * DigitsValue(SubSeq(ds, 1, Len(ds) - 1)) + DigitValue(ds[Len(ds)])

\* The longest prefix of text that reads as digits[.digits]: its length and
\* its value in cents (NaN when it has no digit).  Amounts carry at most two
\* decimals.
DecimalPrefix(text) ==
    LET ip == LeadingDigits(text)
        rest == SubSeq(text, Len(ip) + 1, Len(text))
        hasPoint == rest # <<>> /\ Head(rest) = "."
        fp == IF hasPoint THEN LeadingDigits(Tail(rest)) ELSE <<>>
        tenths == IF Len(fp) >= 1 THEN DigitValue(fp[1]) ELSE 0
        hundredths == IF Len(fp) >= 2 THEN DigitValue(fp[2]) ELSE 0
    IN IF ip = <<>> /\ fp = <<>>
       THEN [len |-> 0, cents |-> NaN]
       ELSE [len |-> Len(ip) + (IF hasPoint THEN 1 + Len(fp) ELSE 0),
             cents |-> 100 * DigitsValue(ip) + 10 * tenths + hundredths]

\* parseFloat(amount): the number the text starts with
ParseFloat(amount) == DecimalPrefix(amount.text).cents

\* amount as the operand of a subtraction: a string counts as a number only
\* when all of it reads as one, and the empty string as 0
ToNumber(amount) ==
    IF amount.text = <<>> THEN (IF amount.quoted THEN 0 ELSE NaN)
    ELSE IF DecimalPrefix(amount.text).len = Len(amount.text)
    THEN DecimalPrefix(amount.text).cents
    ELSE NaN

\* !amount: no amount, the number 0 or the empty string
Falsy(amount) ==
    IF amount.quoted THEN amount.text = <<>>
    ELSE amount.text = <<>> \/ ToNumber(amount) = 0

\* Math.abs(amount - order.totalAmount) > 0.01 on binary floats.  A difference
\* of exactly one cent falls on either side (20.01 - 20 > 0.01, 10.01 - 10 < 0.01);
\* with an amount that is not a number the difference is NaN and the
\* comparison is false.
AmountMismatch(amount, total) ==
    IF ToNumber(amount) = NaN THEN {FALSE}
    ELSE IF Abs(ToNumber(amount) - total) > 1 THEN {TRUE}
    ELSE IF Abs(ToNumber(amount) - total) = 1 THEN {TRUE, FALSE}
    ELSE {FALSE}

\* the handler without its 'payment already exists' check
PaymentAlreadyProcessedNever(cur) == FALSE

\* if (order.payment): the order read already has a payment
PaymentAlreadyProcessed(cur) == cur.paid

\* the Payment table without the unique index on orderId
PaymentInsertAllowedNoUnique(o) == OrderExists(o)

\* @unique on Payment.orderId (unique index Payment_orderId_key) and the
\* foreign key Payment.orderId -> Order.id
PaymentInsertAllowed(o) == OrderExists(o) /\ ~HasPayment(o)

\* a handler that checks the customer's ownership only
PaymentUnauthorizedCustomerOnly(user, order) ==
    user.role = "CUSTOMER" /\ order.customerId # user.id

\* the handler's authorization check: a CUSTOMER on someone else's order, a
\* CASHIER on an order of another branch than user.branchId (undefined, here
\* NoBranch, for a cashier without a branch)
PaymentUnauthorized(user, order) ==
    \/ user.role = "CUSTOMER" /\ order.customerId # user.id
    \/ user.role = "CASHIER" /\ order.branchId # user.branchId

ProcessPayment(s, user, o, amount, method) ==
    /\ Free(s)
    /\ UNCHANGED store
    /\ LET r == [Idle EXCEPT !.op = "processPayment", !.user = user,
                             !.orderId = o, !.amount = amount, !.method = method]
           found == [r EXCEPT !.cur = Snapshot(o)]
       IN IF ~authorizeRole({"CUSTOMER", "CASHIER"}, user)
          THEN Reply(s, r, "FORBIDDEN")
          ELSE IF Falsy(amount) \/ method = NoMethod
          THEN Reply(s, r, "MISSING_INPUT")
          ELSE \/ Reply(s, r, "STORE_ERROR")
               \/ IF ~OrderExists(o)
                  THEN Reply(s, found, "NOT_FOUND")
                  ELSE IF PaymentUnauthorized(user, orders[o])
                  THEN Reply(s, found, "UNAUTHORIZED")
                  ELSE IF PaymentAlreadyProcessed(found.cur)
                  THEN Reply(s, found, "DUPLICATE_PAYMENT")
                  ELSE \E mismatch \in AmountMismatch(amount, orders[o].totalAmount) :
                         IF mismatch
                         THEN Reply(s, found, "AMOUNT_MISMATCH")
                         ELSE Await(s, found, "create")

\* prisma.payment.create({ data: { orderId, amount: parseFloat(amount), method,
\* status: 'COMPLETED' } }).  Whether the store takes NaN for a Float column
\* is not for the handler to say: it may refuse the row or keep it.
ProcessPaymentCreate(s) ==
    LET r == req[s]
    IN /\ Resumes(s, "processPayment", "create")
       /\ UNCHANGED <<orders, orderItems, menu, office>>
       /\ \/ /\ PaymentInsertAllowed(r.orderId)
             /\ nextId.payment <= NumOrders + 1
             /\ payments' = payments @@ (nextId.payment :>
                    [orderId |-> r.orderId, amount |-> ParseFloat(r.amount),
                     method |-> r.method, status |-> "COMPLETED"])
             /\ nextId' = [nextId EXCEPT !.payment = @ + 1]
             /\ Reply(s, [r EXCEPT !.writes = @ + 1], "OK")
          \/ /\ ~PaymentInsertAllowed(r.orderId) \/ ParseFloat(r.amount) = NaN
             /\ UNCHANGED <<payments, nextId>>
             /\ Reply(s, r, "STORE_ERROR")

(***************************************************************************)
(* performQuickAction (POST /api/admin-dashboard/actions), cancel_order.   *)
(* The route sits behind authenticateToken only; the handler's one store   *)
(* call is the update itself.                                              *)
(***************************************************************************)
QuickActionCancelOrder(user, o) ==
    LET r == [Idle EXCEPT !.op = "cancel_order", !.user = user, !.orderId = o,
                          !.status = "CANCELLED", !.cur = Snapshot(o)]
    IN /\ resp = NoResp
       /\ UNCHANGED <<orderItems, payments, menu, nextId, office, req>>
       /\ \/ /\ OrderExists(o)
             /\ orders' = [orders EXCEPT ![o].status = "CANCELLED"]
             /\ resp' = Answer([r EXCEPT !.writes = 1], "OK")
          \/ /\ UNCHANGED orders
             /\ resp' = Answer(r, "STORE_ERROR")

(***************************************************************************)
(* createOrder (POST /api/orders).                                         *)
(***************************************************************************)
\* Strings are sequences of characters.  toLowerCase() on the letters the
\* addresses use, and the characters /[^a-z0-9]/ leaves in place.
Lower(c) ==
    CASE c = "E" -> "e" [] c = "S" -> "s" [] c = "O" -> "o" [] c = "A" -> "a"
      [] c = "R" -> "r"
      [] OTHER -> c
AlphaNum == {"a", "d", "e", "k", "l", "m", "n", "o", "r", "s", "t", "u", "v",
             "2", "4", "7", "9"}

\* const normalize = (str) => str.toLowerCase().replace(/[^a-z0-9]/g, '')
RECURSIVE normalize(_)
normalize(str) ==
    IF str = <<>> THEN <<>>
    ELSE LET c == Lower(Head(str))
         IN IF c \in AlphaNum THEN <<c>> \o normalize(Tail(str))
            ELSE normalize(Tail(str))

Min(a, b) == IF a < b THEN a ELSE b

\* for (i < Math.min(branchNorm.length, input.length)) if (branchNorm[i] === input[i]) score++
Score(branchNorm, input) ==
    Cardinality({i \in 1..Min(Len(branchNorm), Len(input)) : branchNorm[i] = input[i]})

\* Branch rows in the order findMany() lists them, with their addresses
BranchAddress(b) ==
    IF b = 1 THEN <<"4", "2", " ", "E", "l", "m", " ", "S", "t">>
    ELSE <<"9", "9", " ", "O", "a", "k", " ", "A", "v", "e">>
BranchList == <<1, 2>>

\* the same loop taking a later branch on an equal score
RECURSIVE BestFromLatest(_, _, _, _)
BestFromLatest(i, best, bestScore, input) ==
    IF i > Len(BranchList) THEN best
    ELSE LET score == Score(normalize(BranchAddress(BranchList[i])), input)
         IN IF score >= bestScore
            THEN BestFromLatest(i + 1, BranchList[i], score, input)
            ELSE BestFromLatest(i + 1, best, bestScore, input)

\* let best = branches[0]; let bestScore = 0; for (...) if (score > bestScore) ...
RECURSIVE BestFrom(_, _, _, _)
BestFrom(i, best, bestScore, input) ==
    IF i > Len(BranchList) THEN best
    ELSE LET score == Score(normalize(BranchAddress(BranchList[i])), input)
         IN IF score > bestScore
            THEN BestFrom(i + 1, BranchList[i], score, input)
            ELSE BestFrom(i + 1, best, bestScore, input)
BestBranch(deliveryAddress) ==
    BestFrom(1, BranchList[1], 0, normalize(deliveryAddress))

\* the branch the order goes to; 0 when the body names neither a branch nor
\* an address
ResolveBranch(branchId, deliveryAddress) ==
    IF branchId = 0 /\ deliveryAddress # <<>>
    THEN BestBranch(deliveryAddress)
    ELSE branchId

\* a handler that takes the body's customerId from every caller
ActualCustomerIdAsNamed(user, customerId) ==
    IF customerId # 0 THEN customerId ELSE user.id

\* actualCustomerId: a CUSTOMER orders for themselves, staff for the named
\* customer or, with none named, under their own id
ActualCustomerId(user, customerId) ==
    IF user.role = "CUSTOMER" THEN user.id
    ELSE IF customerId # 0 THEN customerId ELSE user.id

UserIds == Customers \cup StaffIds

\* prisma.menuItem.findUnique({ where: { id } })
MenuItemExists(m) == m \in DOMAIN menu

\* an item loop without the isAvailable test
CreateOrderItemAnyAvailability(s, r) ==
    LET item == r.items[r.idx]
    IN IF ~MenuItemExists(item.menuItemId)
       THEN Reply(s, r, "ITEM_NOT_FOUND")
       ELSE LET price == menu[item.menuItemId].price
                subtotal == price * item.quantity
                priced == [menuItemId |-> item.menuItemId, quantity |-> item.quantity,
                           unitPrice |-> price, subtotal |-> subtotal]
                next == [r EXCEPT !.acc = Append(@, priced), !.total = @ + subtotal,
                                  !.idx = @ + 1]
            IN Await(s, next, IF next.idx > Len(r.items) THEN "create" ELSE "item")

\* One pass of the item loop at index r.idx on the menu as it is now: the
\* handler's answer when the item is refused, else the handler one item on.
CreateOrderItem(s, r) ==
    LET item == r.items[r.idx]
    IN IF ~MenuItemExists(item.menuItemId)
       THEN Reply(s, r, "ITEM_NOT_FOUND")
       ELSE IF ~menu[item.menuItemId].isAvailable
       THEN Reply(s, r, "ITEM_UNAVAILABLE")
       ELSE LET price == menu[item.menuItemId].price
                subtotal == price * item.quantity
                priced == [menuItemId |-> item.menuItemId, quantity |-> item.quantity,
                           unitPrice |-> price, subtotal |-> subtotal]
                next == [r EXCEPT !.acc = Append(@, priced), !.total = @ + subtotal,
                                  !.idx = @ + 1]
            IN Await(s, next, IF next.idx > Len(r.items) THEN "create" ELSE "item")

\* Route check, customer and branch resolution, and the first menu lookup.
\* prisma.branch.findMany() reads a table this model never writes, so the
\* branch is resolved in the same step.
CreateOrder(s, user, branchId, items, deliveryAddress, customerId) ==
    /\ Free(s)
    /\ UNCHANGED store
    /\ LET r == [Idle EXCEPT !.op = "createOrder", !.user = user, !.items = items,
                             !.customerId = ActualCustomerId(user, customerId),
                             !.branchId = ResolveBranch(branchId, deliveryAddress),
                             !.idx = 1,
                             !.body = [branchId |-> branchId, customerId |-> customerId,
                                       deliveryAddress |-> deliveryAddress]]
       IN IF ~authorizeRole({"CUSTOMER", "CASHIER"}, user)
          THEN Reply(s, r, "FORBIDDEN")
          ELSE IF Len(items) = 0
          THEN Reply(s, r, "EMPTY_ORDER")
          ELSE IF r.branchId = 0
          THEN Reply(s, r, "MISSING_BRANCH")
          ELSE \/ Reply(s, r, "STORE_ERROR")
               \/ CreateOrderItem(s, r)

\* the menu lookup of the next item
CreateOrderLookup(s) ==
    /\ Resumes(s, "createOrder", "item")
    /\ UNCHANGED store
    /\ CreateOrderItem(s, req[s])

\* prisma.order.create({ data: { ..., items: { create: orderItems } } }): one
\* nested write, refused by the foreign keys on branchId and customerId
CreateOrderWrite(s) ==
    LET r == req[s]
        id == nextId.order
    IN /\ Resumes(s, "createOrder", "create")
       /\ UNCHANGED <<payments, menu, office>>
       /\ IF r.branchId \in Branches /\ r.customerId \in UserIds
          THEN /\ id <= NumOrders
               /\ orders' = orders @@ (id :> [status |-> "PENDING", totalAmount |-> r.total,
                                              customerId |-> r.customerId,
                                              branchId |-> r.branchId])
               /\ orderItems' = orderItems @@ (id :> r.acc)
               /\ nextId' = [nextId EXCEPT !.order = @ + 1]
               /\ Reply(s, [r EXCEPT !.orderId = id, !.writes = @ + 1], "OK")
          ELSE /\ UNCHANGED <<orders, orderItems, nextId>>
               /\ Reply(s, r, "STORE_ERROR")

(***************************************************************************)
(* Cart sync (POST /api/orders/cart), CUSTOMER only.  Cart items are       *)
(* {id, quantity}; the model keeps them as [menuItemId, quantity].         *)
(***************************************************************************)
\* prisma.order.findFirst({ where: { customerId, status: 'PENDING' } }): any
\* one of the matching rows
PendingOrdersOf(customerId) ==
    {o \in DOMAIN orders : orders[o].customerId = customerId /\ orders[o].status = "PENDING"}

CartSync(s, user, items) ==
    /\ Free(s)
    /\ UNCHANGED store
    /\ LET r == [Idle EXCEPT !.op = "cartSync", !.user = user, !.items = items,
                             !.customerId = user.id, !.idx = 1]
       IN IF ~authorizeRole({"CUSTOMER"}, user)
          THEN Reply(s, r, "FORBIDDEN")
          ELSE IF Len(items) = 0
          THEN Reply(s, r, "EMPTY_ORDER")
          ELSE \/ Reply(s, r, "STORE_ERROR")
               \/ IF PendingOrdersOf(user.id) = {}
                  THEN Await(s, r, "cartCreate")
                  ELSE \E o \in PendingOrdersOf(user.id) :
                          Await(s, [r EXCEPT !.orderId = o], "cartDelete")

\* prisma.order.create({ data: { customerId, branchId: 1, status: 'PENDING', totalAmount: 0 } })
CartCreateOrder(s) ==
    LET r == req[s]
        id == nextId.order
    IN /\ Resumes(s, "cartSync", "cartCreate")
       /\ id <= NumOrders
       /\ UNCHANGED <<payments, menu, office>>
       /\ orders' = orders @@ (id :> [status |-> "PENDING", totalAmount |-> 0,
                                      customerId |-> r.customerId, branchId |-> 1])
       /\ orderItems' = orderItems @@ (id :> <<>>)
       /\ nextId' = [nextId EXCEPT !.order = @ + 1]
       /\ Await(s, [r EXCEPT !.orderId = id, !.writes = @ + 1], "cartDelete")

\* prisma.orderItem.deleteMany({ where: { orderId: order.id } })
CartDeleteItems(s) ==
    LET r == req[s]
    IN /\ Resumes(s, "cartSync", "cartDelete")
       /\ UNCHANGED <<orders, payments, menu, nextId, office>>
       /\ orderItems' = [o \in DOMAIN orderItems |->
                            IF o = r.orderId THEN <<>> ELSE orderItems[o]]
       /\ Await(s, [r EXCEPT !.writes = @ + 1], "cartLook")

\* prisma.menuItem.findUnique: const price = menuItem ? menuItem.price : 0
CartLookup(s) ==
    LET r == req[s]
        item == r.items[r.idx]
        price == IF MenuItemExists(item.menuItemId) THEN menu[item.menuItemId].price ELSE 0
        subtotal == price * item.quantity
        priced == [menuItemId |-> item.menuItemId, quantity |-> item.quantity,
                   unitPrice |-> price, subtotal |-> subtotal]
    IN /\ Resumes(s, "cartSync", "cartLook")
       /\ UNCHANGED store
       /\ Await(s, [r EXCEPT !.acc = <<priced>>, !.total = @ + subtotal], "cartInsert")

\* prisma.orderItem.create: refused by the foreign keys on orderId and menuItemId
CartInsertItem(s) ==
    LET r == req[s]
        priced == r.acc[1]
    IN /\ Resumes(s, "cartSync", "cartInsert")
       /\ UNCHANGED <<orders, payments, menu, nextId, office>>
       /\ IF OrderExists(r.orderId) /\ MenuItemExists(priced.menuItemId)
          THEN /\ orderItems' = [orderItems EXCEPT ![r.orderId] = Append(@, priced)]
               /\ Await(s, [r EXCEPT !.acc = <<>>, !.idx = @ + 1, !.writes = @ + 1],
                        IF r.idx + 1 > Len(r.items) THEN "cartUpdate" ELSE "cartLook")
          ELSE /\ UNCHANGED orderItems
               /\ Reply(s, r, "STORE_ERROR")

\* prisma.order.update({ where: { id: order.id }, data: { totalAmount } })
CartUpdateTotal(s) ==
    LET r == req[s]
    IN /\ Resumes(s, "cartSync", "cartUpdate")
       /\ UNCHANGED <<orderItems, payments, menu, nextId, office>>
       /\ IF OrderExists(r.orderId)
          THEN /\ orders' = [orders EXCEPT ![r.orderId].totalAmount = r.total]
               /\ Reply(s, [r EXCEPT !.writes = @ + 1], "OK")
          ELSE /\ UNCHANGED orders
               /\ Reply(s, r, "STORE_ERROR")

(***************************************************************************)
(* deleteOrder (DELETE /api/orders/:id), ADMIN and BRANCH_MANAGER only.    *)
(***************************************************************************)
\* a handler that deletes orders of any status
DeletableStatusAny(status) == TRUE

\* if (order.status === 'DELIVERED') 400
DeletableStatus(status) == status # "DELIVERED"

\* The foreign keys OrderItem.orderId and Payment.orderId are ON DELETE
\* RESTRICT: the store deletes an Order row only when no item and no payment
\* points at it.
OrderDeleteAllowed(o) ==
    /\ OrderExists(o)
    /\ orderItems[o] = <<>>
    /\ ~HasPayment(o)

\* Route check and prisma.order.findUnique({ include: { payment: true } }),
\* then the handler's checks on what it read.
DeleteOrder(s, user, o) ==
    /\ Free(s)
    /\ UNCHANGED store
    /\ LET r == [Idle EXCEPT !.op = "deleteOrder", !.user = user, !.orderId = o]
           found == [r EXCEPT !.cur = Snapshot(o)]
       IN IF ~authorizeRole({"ADMIN", "BRANCH_MANAGER"}, user)
          THEN Reply(s, r, "FORBIDDEN")
          ELSE \/ Reply(s, r, "STORE_ERROR")
               \/ IF user.role \notin {"ADMIN", "BRANCH_MANAGER"}
                  THEN Reply(s, found, "FORBIDDEN")
                  ELSE IF ~OrderExists(o)
                  THEN Reply(s, found, "NOT_FOUND")
                  ELSE IF ~DeletableStatus(found.cur.status)
                  THEN Reply(s, found, "CANNOT_DELETE_DELIVERED")
                  ELSE IF found.cur.paid
                  THEN Await(s, found, "refund")
                  ELSE Await(s, found, "delete")

\* prisma.payment.update({ where: { id: order.payment.id }, data: { status: 'REFUNDED' } })
DeleteOrderRefund(s) ==
    LET r == req[s]
    IN /\ Resumes(s, "deleteOrder", "refund")
       /\ UNCHANGED <<orders, orderItems, menu, nextId, office>>
       /\ IF r.cur.payment.id \in DOMAIN payments
          THEN /\ payments' = [payments EXCEPT ![r.cur.payment.id].status = "REFUNDED"]
               /\ Await(s, [r EXCEPT !.writes = @ + 1], "delete")
          ELSE /\ UNCHANGED payments
               /\ Reply(s, r, "STORE_ERROR")

\* prisma.order.delete({ where: { id } })
DeleteOrderDelete(s) ==
    LET r == req[s]
    IN /\ Resumes(s, "deleteOrder", "delete")
       /\ UNCHANGED <<payments, menu, nextId, office>>
       /\ IF OrderDeleteAllowed(r.orderId)
          THEN /\ orders' = [o \in DOMAIN orders \ {r.orderId} |-> orders[o]]
               /\ orderItems' = [o \in DOMAIN orderItems \ {r.orderId} |-> orderItems[o]]
               /\ Reply(s, [r EXCEPT !.writes = @ + 1], "OK")
          ELSE /\ UNCHANGED <<orders, orderItems>>
               /\ Reply(s, r, "STORE_ERROR")

(***************************************************************************)
(* getOrders (GET /api/orders), open to all six roles.  The query values   *)
(* are 0 or "NONE" when the client leaves them out; a where-clause field   *)
(* of 0 or "NONE" is a field the handler did not set.                      *)
(***************************************************************************)
NoFilter == 0

\* const whereClause = {}; the role-based fields, then the query filters
WhereClause(user, branchIdQ, statusQ, customerIdQ) ==
    LET scoped ==
            IF user.role \in {"CHEF", "CASHIER"}
            THEN [branchId |-> IF user.branchId # NoBranch THEN user.branchId ELSE NoFilter,
                  customerId |-> NoFilter]
            ELSE IF user.role = "CUSTOMER"
            THEN [branchId |-> NoFilter, customerId |-> user.id]
            ELSE IF user.role = "BRANCH_MANAGER"
            THEN [branchId |-> IF user.branchId # NoBranch THEN user.branchId ELSE NoFilter,
                  customerId |-> NoFilter]
            ELSE [branchId |-> NoFilter, customerId |-> NoFilter]
    IN [branchId |-> IF branchIdQ # NoFilter /\ user.role \in {"ADMIN", "GENERAL_MANAGER"}
                     THEN branchIdQ ELSE scoped.branchId,
        status |-> statusQ,
        customerId |-> IF /\ customerIdQ # NoFilter
                          /\ user.role \in {"ADMIN", "GENERAL_MANAGER", "BRANCH_MANAGER"}
                       THEN customerIdQ ELSE scoped.customerId]

\* prisma.order.findMany({ where }): the ids of the rows every set field matches
FindMany(where) ==
    {o \in DOMAIN orders :
        /\ where.branchId # NoFilter => orders[o].branchId = where.branchId
        /\ where.status # "NONE" => orders[o].status = where.status
        /\ where.customerId # NoFilter => orders[o].customerId = where.customerId}

GetOrders(user, branchIdQ, statusQ, customerIdQ) ==
    LET r == [Idle EXCEPT !.op = "getOrders", !.user = user, !.branchId = branchIdQ,
                          !.status = statusQ, !.customerId = customerIdQ]
    IN /\ resp = NoResp
       /\ UNCHANGED <<store, req>>
       /\ IF ~authorizeRole(Role, user)
          THEN resp' = Answer(r, "FORBIDDEN")
          ELSE \/ resp' = Answer([r EXCEPT !.result =
                                     FindMany(WhereClause(user, branchIdQ, statusQ, customerIdQ))],
                                 "OK")
               \/ resp' = Answer(r, "STORE_ERROR")

(***************************************************************************)
(* Catalog writes: updateMenuItem (PUT /api/menu/:id) and the quick action *)
(* toggle_menu_item.  Each is one prisma.menuItem.update.  price 0 stands  *)
(* for a body without price (if (price) ...); isAvailable is "TRUE",       *)
(* "FALSE" or, for a body without a boolean isAvailable, "NONE".           *)
(***************************************************************************)
UpdateMenuItem(user, m, price, isAvailable) ==
    LET r == [Idle EXCEPT !.op = "updateMenuItem", !.user = user, !.orderId = m,
                          !.amount = price]
    IN /\ resp = NoResp
       /\ UNCHANGED <<orders, orderItems, payments, nextId, office, req>>
       /\ IF ~authorizeRole({"ADMIN", "GENERAL_MANAGER", "BRANCH_MANAGER"}, user)
          THEN UNCHANGED menu /\ resp' = Answer(r, "FORBIDDEN")
          ELSE IF ~MenuItemExists(m)
          THEN UNCHANGED menu /\ resp' = Answer(r, "STORE_ERROR")
          ELSE \/ /\ menu' = [menu EXCEPT
                                ![m].price = IF price # 0 THEN price ELSE @,
                                ![m].isAvailable = IF isAvailable = "NONE"
                                                   THEN @ ELSE isAvailable = "TRUE"]
                  /\ resp' = Answer([r EXCEPT !.writes = 1], "OK")
               \/ UNCHANGED menu /\ resp' = Answer(r, "STORE_ERROR")

\* performQuickAction case 'toggle_menu_item': any authenticated caller
QuickActionToggleMenuItem(user, m, isAvailable) ==
    LET r == [Idle EXCEPT !.op = "toggle_menu_item", !.user = user, !.orderId = m]
    IN /\ resp = NoResp
       /\ UNCHANGED <<orders, orderItems, payments, nextId, office, req>>
       /\ \/ /\ MenuItemExists(m)
             /\ menu' = [menu EXCEPT ![m].isAvailable = isAvailable]
             /\ resp' = Answer([r EXCEPT !.writes = 1], "OK")
          \/ UNCHANGED menu /\ resp' = Answer(r, "STORE_ERROR")

(***************************************************************************)
(* Inventory (/api/inventory) and the quick action update_inventory.  An   *)
(* item's name, unit and minThreshold are carried by every body and play   *)
(* no part in the handlers' checks; the model keeps branchId and quantity. *)
(***************************************************************************)
MaxInventory == 3       \* inventory ids the store hands out
MissingItem == 99       \* an id no inventory row has

InventoryItemExists(i) == i \in DOMAIN inventory

\* updateInventoryItem's authorization check: CHEF and CASHIER only on an
\* item of their own branch; no other role is looked at
InventoryUpdateUnauthorized(user, item) ==
    /\ user.role \in {"CHEF", "CASHIER"}
    /\ (user.branchId = NoBranch \/ item.branchId # user.branchId)

\* PUT /api/inventory/:id, behind authenticateToken only:
\* prisma.inventoryItem.findUnique, then the handler's checks
UpdateInventoryItem(s, user, i, quantity) ==
    /\ Free(s)
    /\ UNCHANGED store
    /\ LET r == [Idle EXCEPT !.op = "updateInventoryItem", !.user = user, !.target = i,
                             !.data = [NoData EXCEPT !.quantity = quantity]]
       IN \/ Reply(s, r, "STORE_ERROR")
          \/ IF ~InventoryItemExists(i)
             THEN Reply(s, r, "NOT_FOUND")
             ELSE IF InventoryUpdateUnauthorized(user, inventory[i])
             THEN Reply(s, [r EXCEPT !.branchId = inventory[i].branchId], "UNAUTHORIZED")
             ELSE Await(s, [r EXCEPT !.branchId = inventory[i].branchId], "update")

\* prisma.inventoryItem.update({ where: { id }, data: updateData }): quantity
\* only when the body has one
UpdateInventoryItemWrite(s) ==
    LET r == req[s]
    IN /\ Resumes(s, "updateInventoryItem", "update")
       /\ UNCHANGED <<orders, orderItems, payments, menu, nextId, users, now, failedLogins>>
       /\ IF InventoryItemExists(r.target)
          THEN /\ inventory' = [inventory EXCEPT ![r.target].quantity =
                                    IF r.data.quantity # NoQuantity THEN r.data.quantity ELSE @]
               /\ Reply(s, [r EXCEPT !.writes = @ + 1], "OK")
          ELSE /\ UNCHANGED inventory
               /\ Reply(s, r, "STORE_ERROR")

\* POST /api/inventory: the route's and the handler's role check, the branch
\* check of a BRANCH_MANAGER (user.branchId !== Number(branchId)), the
\* required fields.  branchId 0 is a body without branchId.
CreateInventoryItem(s, user, branchId, quantity) ==
    /\ Free(s)
    /\ UNCHANGED store
    /\ LET r == [Idle EXCEPT !.op = "createInventoryItem", !.user = user, !.branchId = branchId,
                             !.data = [NoData EXCEPT !.branchId = branchId,
                                                     !.quantity = quantity]]
       IN IF ~authorizeRole({"ADMIN", "GENERAL_MANAGER", "BRANCH_MANAGER"}, user)
          THEN Reply(s, r, "FORBIDDEN")
          ELSE IF user.role = "BRANCH_MANAGER"
                  /\ (branchId = 0 \/ user.branchId # branchId)
          THEN Reply(s, r, "UNAUTHORIZED")
          ELSE IF quantity = NoQuantity \/ branchId = 0
          THEN Reply(s, r, "MISSING_INPUT")
          ELSE Await(s, r, "create")

\* prisma.inventoryItem.create, refused by the foreign key on branchId
CreateInventoryItemWrite(s) ==
    LET r == req[s]
        id == nextId.inventoryItem
    IN /\ Resumes(s, "createInventoryItem", "create")
       /\ UNCHANGED <<orders, orderItems, payments, menu, users, now, failedLogins>>
       /\ IF r.branchId \in Branches
          THEN /\ id <= MaxInventory
               /\ inventory' = inventory @@
                     (id :> [branchId |-> r.branchId, quantity |-> r.data.quantity])
               /\ nextId' = [nextId EXCEPT !.inventoryItem = @ + 1]
               /\ Reply(s, [r EXCEPT !.target = id, !.writes = @ + 1], "OK")
          ELSE /\ UNCHANGED <<inventory, nextId>>
               /\ Reply(s, r, "STORE_ERROR")

\* DELETE /api/inventory/:id: the route's role check, findUnique, the
\* handler's role check and the branch check of a BRANCH_MANAGER
DeleteInventoryItem(s, user, i) ==
    /\ Free(s)
    /\ UNCHANGED store
    /\ LET r == [Idle EXCEPT !.op = "deleteInventoryItem", !.user = user, !.target = i]
       IN IF ~authorizeRole({"ADMIN", "GENERAL_MANAGER", "BRANCH_MANAGER"}, user)
          THEN Reply(s, r, "FORBIDDEN")
          ELSE \/ Reply(s, r, "STORE_ERROR")
               \/ IF ~InventoryItemExists(i)
                  THEN Reply(s, r, "NOT_FOUND")
                  ELSE IF user.role \notin {"ADMIN", "GENERAL_MANAGER", "BRANCH_MANAGER"}
                  THEN Reply(s, r, "FORBIDDEN")
                  ELSE IF user.role = "BRANCH_MANAGER"
                          /\ user.branchId # inventory[i].branchId
                  THEN Reply(s, [r EXCEPT !.branchId = inventory[i].branchId], "UNAUTHORIZED")
                  ELSE Await(s, [r EXCEPT !.branchId = inventory[i].branchId], "delete")

\* prisma.inventoryItem.delete({ where: { id } })
DeleteInventoryItemWrite(s) ==
    LET r == req[s]
    IN /\ Resumes(s, "deleteInventoryItem", "delete")
       /\ UNCHANGED <<orders, orderItems, payments, menu, nextId, users, now, failedLogins>>
       /\ IF InventoryItemExists(r.target)
          THEN /\ inventory' = [i \in DOMAIN inventory \ {r.target} |-> inventory[i]]
               /\ Reply(s, [r EXCEPT !.writes = @ + 1], "OK")
          ELSE /\ UNCHANGED inventory
               /\ Reply(s, r, "STORE_ERROR")

\* performQuickAction case 'update_inventory': any authenticated caller;
\* !data.inventoryItemId || !data.quantity answers 400 (a quantity of 0 too),
\* else the one store call is the update itself
QuickActionUpdateInventory(user, i, quantity) ==
    LET r == [Idle EXCEPT !.op = "update_inventory", !.user = user, !.target = i,
                          !.data = [NoData EXCEPT !.quantity = quantity]]
    IN /\ resp = NoResp
       /\ UNCHANGED <<orders, orderItems, payments, menu, nextId, users, now, failedLogins, req>>
       /\ IF quantity = NoQuantity \/ quantity = 0
          THEN UNCHANGED inventory /\ resp' = Answer(r, "MISSING_INPUT")
          ELSE \/ /\ InventoryItemExists(i)
                  /\ inventory' = [inventory EXCEPT ![i].quantity = quantity]
                  /\ resp' = Answer([r EXCEPT !.branchId = inventory[i].branchId,
                                              !.writes = 1], "OK")
               \/ UNCHANGED inventory /\ resp' = Answer(r, "STORE_ERROR")

(***************************************************************************)
(* Accounts (/auth): login, requestPasswordReset, resetPassword.  None of  *)
(* the three routes has a middleware.  A user has one name: username and   *)
(* email are looked up alike.  Passwords are sequences of characters; time *)
(* is counted in minutes.                                                  *)
(***************************************************************************)
lockDuration == 15          \* minutes an account stays locked
LockThreshold == 5          \* if (failedAttempts >= 5)
ResetTokenLife == 60        \* Date.now() + 60 * 60 * 1000
MinPasswordLength == 8      \* if (newPassword.length < 8)
MaxFailedLogins == 6        \* failed logins counted per account
MaxTokens == 2              \* reset tokens drawn

\* bcrypt.hash(password, saltRounds): a text that is not the password and
\* that bcrypt.compare matches with that password only
hashPassword(password) == <<"$", "2", "b", "$">> \o password
comparePassword(password, hashedPassword) == hashedPassword = hashPassword(password)

\* !text?.trim(): nothing but blanks, or nothing at all
Blank(text) == \A i \in DOMAIN text : text[i] = " "

\* /^(?=.*[0-9])(?=.*[!@#$%^&*])/
SpecialChars == {"!", "@", "#", "$", "%", "^", "&", "*"}
passwordRegex(text) ==
    /\ \E i \in DOMAIN text : IsDigit(text[i])
    /\ \E i \in DOMAIN text : text[i] \in SpecialChars

\* prisma.user.findFirst({ where: { OR: [{ username }, { email }] } })
UsersNamed(name) == {u \in DOMAIN users : users[u].username = name}
\* prisma.user.findFirst({ where: { passwordResetToken: token } })
UsersWithToken(token) == {u \in DOMAIN users : users[u].passwordResetToken = token}

\* a scheme in which a lock never holds a login back
AccountLockedNever(user) == FALSE

\* if (user.lockedUntil && user.lockedUntil > new Date())
AccountLocked(user) == user.lockedUntil # NoDate /\ user.lockedUntil > now

\* isTokenExpired(expiryDate): null counts as expired
isTokenExpired(expiryDate) == expiryDate = NoDate \/ expiryDate < now

\* POST /auth/login: the input check and prisma.user.findFirst, then the lock
\* check on the row read
Login(s, name, password) ==
    /\ Free(s)
    /\ UNCHANGED store
    /\ LET r == [Idle EXCEPT !.op = "login",
                             !.data = [NoData EXCEPT !.username = name, !.password = password]]
       IN IF name = NoName \/ Blank(password)
          THEN Reply(s, r, "MISSING_INPUT")
          ELSE \/ Reply(s, r, "STORE_ERROR")
               \/ IF UsersNamed(name) = {}
                  THEN Reply(s, r, "NOT_FOUND")
                  ELSE \E u \in UsersNamed(name) :
                         LET found == [r EXCEPT !.target = u, !.row = users[u]]
                         IN IF AccountLocked(users[u])
                            THEN Reply(s, found, "LOCKED")
                            ELSE Await(s, found, "compare")

\* await comparePassword(password, user.password) answers; on a mismatch the
\* handler makes updateData ready from the row it read: failedLoginAttempts
\* one up and, from the fifth on, lockedUntil lockDuration minutes from now
\* (NoDate: updateData has no lockedUntil)
LoginCompare(s) ==
    LET r == req[s]
        failedAttempts == r.row.failedLoginAttempts + 1
    IN /\ Resumes(s, "login", "compare")
       /\ UNCHANGED store
       /\ IF comparePassword(r.data.password, r.row.password)
          THEN Await(s, r, "succeed")
          ELSE Await(s, [r EXCEPT !.updateData =
                            [NoUser EXCEPT !.failedLoginAttempts = failedAttempts,
                                           !.lockedUntil = IF failedAttempts >= LockThreshold
                                                           THEN now + lockDuration
                                                           ELSE NoDate]],
                     "fail")

\* prisma.user.update({ where: { id }, data: updateData }) after a mismatch
LoginFail(s) ==
    LET r == req[s]
    IN /\ Resumes(s, "login", "fail")
       /\ UNCHANGED <<orders, orderItems, payments, menu, nextId, inventory, now>>
       /\ IF r.target \in DOMAIN users
          THEN /\ failedLogins[r.target] < MaxFailedLogins
               /\ users' = [users EXCEPT
                               ![r.target].failedLoginAttempts = r.updateData.failedLoginAttempts,
                               ![r.target].lockedUntil =
                                   IF r.updateData.lockedUntil # NoDate
                                   THEN r.updateData.lockedUntil ELSE @]
               /\ failedLogins' = [failedLogins EXCEPT ![r.target] = @ + 1]
               /\ Reply(s, [r EXCEPT !.writes = @ + 1], "WRONG_PASSWORD")
          ELSE /\ UNCHANGED <<users, failedLogins>>
               /\ Reply(s, r, "STORE_ERROR")

\* prisma.user.update({ data: { failedLoginAttempts: 0, lastFailedLogin: null,
\* lockedUntil: null } }) after a match, then the token is signed
LoginSucceed(s) ==
    LET r == req[s]
    IN /\ Resumes(s, "login", "succeed")
       /\ UNCHANGED <<orders, orderItems, payments, menu, nextId, inventory, now>>
       /\ IF r.target \in DOMAIN users
          THEN /\ users' = [users EXCEPT ![r.target].failedLoginAttempts = 0,
                                         ![r.target].lockedUntil = NoDate]
               /\ failedLogins' = [failedLogins EXCEPT ![r.target] = 0]
               /\ Reply(s, [r EXCEPT !.writes = @ + 1], "OK")
          ELSE /\ UNCHANGED <<users, failedLogins>>
               /\ Reply(s, r, "STORE_ERROR")

\* POST /auth/request-reset: the input check and prisma.user.findUnique by
\* email; for a known user generateResetToken() and the expiry.  32 random
\* bytes are modelled as the next number not drawn before.
RequestPasswordReset(s, name) ==
    /\ Free(s)
    /\ UNCHANGED <<orders, orderItems, payments, menu, office>>
    /\ LET r == [Idle EXCEPT !.op = "requestPasswordReset",
                             !.data = [NoData EXCEPT !.username = name]]
       IN IF name = NoName
          THEN UNCHANGED nextId /\ Reply(s, r, "MISSING_INPUT")
          ELSE \/ UNCHANGED nextId /\ Reply(s, r, "STORE_ERROR")
               \/ IF UsersNamed(name) = {}
                  THEN UNCHANGED nextId /\ Reply(s, r, "OK")
                  ELSE /\ nextId.resetToken <= MaxTokens
                       /\ nextId' = [nextId EXCEPT !.resetToken = @ + 1]
                       /\ \E u \in UsersNamed(name) :
                             Await(s, [r EXCEPT !.target = u, !.row = users[u],
                                                !.updateData =
                                   [NoUser EXCEPT !.passwordResetToken = nextId.resetToken,
                                                  !.resetTokenExpires = now + ResetTokenLife]],
                                   "update")

\* prisma.user.update({ data: { passwordResetToken: resetToken, resetTokenExpires } })
RequestPasswordResetWrite(s) ==
    LET r == req[s]
    IN /\ Resumes(s, "requestPasswordReset", "update")
       /\ UNCHANGED <<orders, orderItems, payments, menu, nextId, inventory, now, failedLogins>>
       /\ IF r.target \in DOMAIN users
          THEN /\ users' = [users EXCEPT
                               ![r.target].passwordResetToken = r.updateData.passwordResetToken,
                               ![r.target].resetTokenExpires = r.updateData.resetTokenExpires]
               /\ Reply(s, [r EXCEPT !.writes = @ + 1], "OK")
          ELSE /\ UNCHANGED users
               /\ Reply(s, r, "STORE_ERROR")

\* if (!user || !user.resetTokenExpires || isTokenExpired(user.resetTokenExpires))
ResetTokenRejected(token) ==
    \/ UsersWithToken(token) = {}
    \/ \A u \in UsersWithToken(token) :
          users[u].resetTokenExpires = NoDate \/ isTokenExpired(users[u].resetTokenExpires)

\* POST /auth/reset-password: the input check, prisma.user.findFirst by token,
\* the expiry check and the two checks of the new password
ResetPassword(s, token, newPassword) ==
    /\ Free(s)
    /\ UNCHANGED store
    /\ LET r == [Idle EXCEPT !.op = "resetPassword",
                             !.data = [NoData EXCEPT !.token = token, !.password = newPassword]]
       IN IF token = NoToken \/ Blank(newPassword)
          THEN Reply(s, r, "MISSING_INPUT")
          ELSE \/ Reply(s, r, "STORE_ERROR")
               \/ IF ResetTokenRejected(token)
                  THEN Reply(s, r, "INVALID_TOKEN")
                  ELSE \E u \in UsersWithToken(token) :
                         LET found == [r EXCEPT !.target = u, !.row = users[u]]
                         IN IF Len(newPassword) < MinPasswordLength
                            THEN Reply(s, found, "WEAK_PASSWORD")
                            ELSE IF ~passwordRegex(newPassword)
                            THEN Reply(s, found, "WEAK_PASSWORD")
                            ELSE Await(s, found, "hash")

\* await hashPassword(newPassword) answers
ResetPasswordHash(s) ==
    LET r == req[s]
    IN /\ Resumes(s, "resetPassword", "hash")
       /\ UNCHANGED store
       /\ Await(s, [r EXCEPT !.updateData =
                       [NoUser EXCEPT !.password = hashPassword(r.data.password)]],
                "update")

\* prisma.user.update({ data: { password, passwordResetToken: null,
\* resetTokenExpires: null, lastPasswordChange, failedLoginAttempts: 0,
\* lockedUntil: null } })
ResetPasswordWrite(s) ==
    LET r == req[s]
    IN /\ Resumes(s, "resetPassword", "update")
       /\ UNCHANGED <<orders, orderItems, payments, menu, nextId, inventory, now>>
       /\ IF r.target \in DOMAIN users
          THEN /\ users' = [users EXCEPT ![r.target].password = r.updateData.password,
                                         ![r.target].passwordResetToken = NoToken,
                                         ![r.target].resetTokenExpires = NoDate,
                                         ![r.target].failedLoginAttempts = 0,
                                         ![r.target].lockedUntil = NoDate]
               /\ failedLogins' = [failedLogins EXCEPT ![r.target] = 0]
               /\ Reply(s, [r EXCEPT !.writes = @ + 1], "OK")
          ELSE /\ UNCHANGED <<users, failedLogins>>
               /\ Reply(s, r, "STORE_ERROR")

\* time passes
TickMinutes == 15
MaxTime == 75
Tick ==
    /\ resp = NoResp
    /\ now + TickMinutes <= MaxTime
    /\ now' = now + TickMinutes
    /\ UNCHANGED <<orders, orderItems, payments, menu, nextId, inventory, users,
                   failedLogins, req, resp>>

(***************************************************************************)
(* Staff (/api/staff): createStaffMember, updateStaffMember and            *)
(* deleteStaffMember, each behind authorizeRole(ADMIN, GENERAL_MANAGER,    *)
(* BRANCH_MANAGER).  A body's email is required, looked up and stored as   *)
(* its username is.                                                        *)
(***************************************************************************)
MaxUsers == 5               \* user rows created, the initial ones included
MissingUser == 99           \* an id no user row has

NoRole == "NONE"            \* a body without role
validRoles == {"CHEF", "CASHIER", "BRANCH_MANAGER"}
HigherPrivileges(role) ==
    CASE role = "BRANCH_MANAGER" -> {"BRANCH_MANAGER", "GENERAL_MANAGER", "ADMIN"}
      [] role = "GENERAL_MANAGER" -> {"GENERAL_MANAGER", "ADMIN"}
      [] OTHER -> {}

\* createStaffMember's role and branch checks (403)
CreateStaffForbidden(user, role, branchId) ==
    \/ user.role = "GENERAL_MANAGER" /\ role \notin validRoles
    \/ user.role = "BRANCH_MANAGER" /\ role \notin {"CHEF", "CASHIER"}
    \/ user.role = "BRANCH_MANAGER" /\ (branchId = 0 \/ user.branchId # branchId)

\* POST /api/staff: the input check, the role and branch checks and
\* prisma.user.findFirst by username or email
CreateStaffMember(s, user, data) ==
    /\ Free(s)
    /\ UNCHANGED store
    /\ LET r == [Idle EXCEPT !.op = "createStaffMember", !.user = user, !.data = data]
       IN IF data.username = NoName \/ Blank(data.password) \/ data.role = NoRole
          THEN Reply(s, r, "MISSING_INPUT")
          ELSE IF CreateStaffForbidden(user, data.role, data.branchId)
          THEN Reply(s, r, "FORBIDDEN")
          ELSE \/ Reply(s, r, "STORE_ERROR")
               \/ IF UsersNamed(data.username) # {}
                  THEN Reply(s, r, "DUPLICATE")
                  ELSE Await(s, r, "hash")

\* await hashPassword(password) answers
CreateStaffMemberHash(s) ==
    LET r == req[s]
    IN /\ Resumes(s, "createStaffMember", "hash")
       /\ UNCHANGED store
       /\ Await(s, [r EXCEPT !.updateData =
                       [NoUser EXCEPT !.username = r.data.username,
                                      !.password = hashPassword(r.data.password),
                                      !.role = r.data.role,
                                      !.branchId = r.data.branchId]],
                "create")

\* prisma.user.create({ data }): username is unique, so a name taken in the
\* meantime makes the call throw
CreateStaffMemberCreate(s) ==
    LET r == req[s]
        id == nextId.user
    IN /\ Resumes(s, "createStaffMember", "create")
       /\ UNCHANGED <<orders, orderItems, payments, menu, inventory, now>>
       /\ IF UsersNamed(r.data.username) = {}
          THEN /\ id <= MaxUsers
               /\ users' = [u \in DOMAIN users \cup {id} |->
                               IF u = id THEN r.updateData ELSE users[u]]
               /\ failedLogins' = [u \in DOMAIN users \cup {id} |->
                                      IF u = id THEN 0 ELSE failedLogins[u]]
               /\ nextId' = [nextId EXCEPT !.user = @ + 1]
               /\ Reply(s, [r EXCEPT !.target = id, !.writes = @ + 1], "CREATED")
          ELSE /\ UNCHANGED <<users, failedLogins, nextId>>
               /\ Reply(s, r, "STORE_ERROR")

\* updateStaffMember's authorization checks (403): all for the BRANCH_MANAGER
UpdateStaffForbidden(user, targetUser, role, branchId) ==
    /\ user.role = "BRANCH_MANAGER"
    /\ \/ targetUser.branchId = 0 \/ targetUser.branchId # user.branchId
       \/ role # NoRole /\ role # targetUser.role
       \/ branchId # 0 /\ branchId # user.branchId

\* the store call updateStaffMember makes next: the lookup of a username the
\* body carries, the hash of a password it carries, or the update
UpdateStaffNextCall(data, done) ==
    IF data.username # NoName /\ done = "find" THEN "username"
    ELSE IF ~Blank(data.password) THEN "hash"
    ELSE "update"

\* PUT /api/staff/:id: prisma.user.findUnique by id and the authorization
\* checks on the row read
UpdateStaffMember(s, user, id, data) ==
    /\ Free(s)
    /\ UNCHANGED store
    /\ LET r == [Idle EXCEPT !.op = "updateStaffMember", !.user = user, !.target = id,
                             !.data = data]
       IN \/ Reply(s, r, "STORE_ERROR")
          \/ IF id \notin DOMAIN users
             THEN Reply(s, r, "NOT_FOUND")
             ELSE LET found == [r EXCEPT !.row = users[id]]
                  IN IF UpdateStaffForbidden(user, users[id], data.role, data.branchId)
                     THEN Reply(s, found, "FORBIDDEN")
                     ELSE Await(s, found, UpdateStaffNextCall(data, "find"))

\* prisma.user.findUnique({ where: { username } }): the name must be free or
\* the target's own
UpdateStaffMemberUsername(s) ==
    LET r == req[s]
    IN /\ Resumes(s, "updateStaffMember", "username")
       /\ UNCHANGED store
       /\ IF UsersNamed(r.data.username) \ {r.target} # {}
          THEN Reply(s, r, "DUPLICATE")
          ELSE Await(s, [r EXCEPT !.updateData.username = r.data.username],
                     UpdateStaffNextCall(r.data, "username"))

\* await hashPassword(password) answers
UpdateStaffMemberHash(s) ==
    LET r == req[s]
    IN /\ Resumes(s, "updateStaffMember", "hash")
       /\ UNCHANGED store
       /\ Await(s, [r EXCEPT !.updateData.password = hashPassword(r.data.password)],
                "update")

\* updateData as the handler hands it to the update: role and branchId of
\* the body go in unless the caller is a BRANCH_MANAGER
StaffUpdateData(r) ==
    [r.updateData EXCEPT
        !.role = IF r.data.role # NoRole /\ r.user.role # "BRANCH_MANAGER"
                 THEN r.data.role ELSE NoRole,
        !.branchId = IF r.data.branchId # 0 /\ r.user.role # "BRANCH_MANAGER"
                     THEN r.data.branchId ELSE 0]

\* prisma.user.update({ where: { id }, data: updateData }): a field updateData
\* lacks stays as it is; the call throws when the row is gone or the name is
\* taken
UpdateStaffMemberWrite(s) ==
    LET r == req[s]
        updateData == StaffUpdateData(r)
    IN /\ Resumes(s, "updateStaffMember", "update")
       /\ UNCHANGED <<orders, orderItems, payments, menu, nextId, inventory, now, failedLogins>>
       /\ IF /\ r.target \in DOMAIN users
             /\ updateData.username # NoName => UsersNamed(updateData.username) \ {r.target} = {}
          THEN /\ users' = [users EXCEPT
                  ![r.target].username = IF updateData.username # NoName
                                         THEN updateData.username ELSE @,
                  ![r.target].password = IF updateData.password # <<>>
                                         THEN updateData.password ELSE @,
                  ![r.target].role = IF updateData.role # NoRole THEN updateData.role ELSE @,
                  ![r.target].branchId = IF updateData.branchId # 0
                                         THEN updateData.branchId ELSE @]
               /\ Reply(s, [r EXCEPT !.updateData = updateData, !.writes = @ + 1], "OK")
          ELSE /\ UNCHANGED users
               /\ Reply(s, r, "STORE_ERROR")

\* a handler that checks the branch only
DeleteStaffForbiddenBranchOnly(user, targetUser) ==
    /\ user.role = "BRANCH_MANAGER"
    /\ user.branchId = NoBranch \/ targetUser.branchId # user.branchId

\* deleteStaffMember's authorization checks (403); a branchId the token
\* lacks (undefined) is not identical to any branchId of a row, null included
DeleteStaffForbidden(user, targetUser) ==
    \/ /\ user.role = "BRANCH_MANAGER"
       /\ user.branchId = NoBranch \/ targetUser.branchId # user.branchId
    \/ targetUser.role \in HigherPrivileges(user.role)

\* DELETE /api/staff/:id: prisma.user.findUnique by id and the checks on the
\* row read
DeleteStaffMember(s, user, id) ==
    /\ Free(s)
    /\ UNCHANGED store
    /\ LET r == [Idle EXCEPT !.op = "deleteStaffMember", !.user = user, !.target = id]
       IN \/ Reply(s, r, "STORE_ERROR")
          \/ IF id \notin DOMAIN users
             THEN Reply(s, r, "NOT_FOUND")
             ELSE LET found == [r EXCEPT !.row = users[id]]
                  IN IF DeleteStaffForbidden(user, users[id])
                     THEN Reply(s, found, "FORBIDDEN")
                     ELSE Await(s, found, "delete")

\* prisma.user.delete({ where: { id } })
DeleteStaffMemberDelete(s) ==
    LET r == req[s]
    IN /\ Resumes(s, "deleteStaffMember", "delete")
       /\ UNCHANGED <<orders, orderItems, payments, menu, nextId, inventory, now>>
       /\ IF r.target \in DOMAIN users
          THEN /\ users' = [u \in DOMAIN users \ {r.target} |-> users[u]]
               /\ failedLogins' = [u \in DOMAIN users \ {r.target} |-> failedLogins[u]]
               /\ Reply(s, [r EXCEPT !.writes = @ + 1], "OK")
          ELSE /\ UNCHANGED <<users, failedLogins>>
               /\ Reply(s, r, "STORE_ERROR")

(***************************************************************************)
(* The lifecycle specification.  The store holds NumOrders orders as       *)
(* createOrder leaves them (PENDING, one item of two units at 10.00, total *)
(* 20.00), each either unpaid or paid as processPayment leaves it, and     *)
(* status and quick-action requests arrive in any order and interleaving.  *)
(***************************************************************************)
UnitPrice == 1000
OrderTotal == 2 * UnitPrice

\* the order and payment runs: no inventory, no accounts, the clock at rest
NoOffice ==
    /\ inventory = <<>>
    /\ users = <<>>
    /\ now = 0
    /\ failedLogins = <<>>

InitCustomer(o) == IF o % 2 = 1 THEN 1 ELSE 2
InitBranch(o) == IF o % 2 = 1 THEN 1 ELSE 2
Targets == (1..NumOrders) \cup {MissingOrder}
\* no amount; the numbers 20, 20.01 and 20.02; the strings "20", "5abc" and "abc"
Amounts ==
    {NoAmount,
     [quoted |-> FALSE, text |-> <<"2", "0">>],
     [quoted |-> FALSE, text |-> <<"2", "0", ".", "0", "1">>],
     [quoted |-> FALSE, text |-> <<"2", "0", ".", "0", "2">>],
     [quoted |-> TRUE, text |-> <<"2", "0">>],
     [quoted |-> TRUE, text |-> <<"5", "a", "b", "c">>],
     [quoted |-> TRUE, text |-> <<"a", "b", "c">>]}

\* BRANCH_MANAGER and GENERAL_MANAGER stand to these routes as ADMIN does
LifecycleCallers ==
    {u \in Identities : u.role \in {"CUSTOMER", "CHEF", "CASHIER", "ADMIN"}}

InitOrders ==
    /\ orders = [o \in 1..NumOrders |->
                    [status |-> "PENDING", totalAmount |-> OrderTotal,
                     customerId |-> InitCustomer(o), branchId |-> InitBranch(o)]]
    /\ orderItems = [o \in 1..NumOrders |->
                    <<[menuItemId |-> 1, quantity |-> 2,
                       unitPrice |-> UnitPrice, subtotal |-> OrderTotal]>>]
    /\ menu = [m \in {1} |-> [price |-> UnitPrice, isAvailable |-> TRUE]]
    /\ NoOffice
    /\ req = [s \in Slots |-> Idle]
    /\ resp = NoResp

\* the payment rows of the orders in paid, numbered in order
PaidRows(paid) ==
    LET RECURSIVE Rows(_, _)
        Rows(o, acc) ==
            IF o > NumOrders THEN acc
            ELSE IF o \in paid
            THEN Rows(o + 1, Append(acc, [orderId |-> o, amount |-> OrderTotal,
                                          method |-> "CASH", status |-> "COMPLETED"]))
            ELSE Rows(o + 1, acc)
    IN Rows(1, <<>>)

Init ==
    /\ InitOrders
    /\ \E paid \in SUBSET (1..NumOrders) :
          /\ payments = PaidRows(paid)
          /\ nextId = NextIdFrom(NumOrders + 1, Cardinality(paid) + 1)

Next ==
    \/ \E s \in Slots, u \in LifecycleCallers, o \in Targets, t \in OrderStatus :
           UpdateOrderStatus(s, u, o, t)
    \/ \E s \in Slots : UpdateOrderStatusRefund(s)
    \/ \E s \in Slots : UpdateOrderStatusWrite(s)
    \/ \E u \in LifecycleCallers, o \in Targets : QuickActionCancelOrder(u, o)
    \/ \E s \in Slots : StoreError(s)
    \/ Deliver

Spec == Init /\ [][Next]_vars

(***************************************************************************)
(* The same with updateOrderStatus as the only operation that writes a     *)
(* status: what concurrent status requests do on their own.                *)
(***************************************************************************)
NextStatus ==
    \/ \E s \in Slots, u \in LifecycleCallers, o \in Targets, t \in OrderStatus :
           UpdateOrderStatus(s, u, o, t)
    \/ \E s \in Slots : UpdateOrderStatusRefund(s)
    \/ \E s \in Slots : UpdateOrderStatusWrite(s)
    \/ \E s \in Slots : StoreError(s)
    \/ Deliver

SpecStatus == Init /\ [][NextStatus]_vars

(***************************************************************************)
(* The payment specification: the same orders, all unpaid, and payment     *)
(* requests in any order and interleaving.                                 *)
(***************************************************************************)
InitPay ==
    /\ InitOrders
    /\ payments = <<>>
    /\ nextId = NextIdFrom(NumOrders + 1, 1)

NextPay ==
    \/ \E s \in Slots, u \in LifecycleCallers, o \in Targets, a \in Amounts,
          m \in PaymentMethod \cup {NoMethod} :
           ProcessPayment(s, u, o, a, m)
    \/ \E s \in Slots : ProcessPaymentCreate(s)
    \/ \E s \in Slots : StoreError(s)
    \/ Deliver

SpecPay == InitPay /\ [][NextPay]_vars

(***************************************************************************)
(* The cancellation specification: the same orders, all unpaid, and        *)
(* payment, status and quick-action requests of the order's customer, its  *)
(* branch's cashier and an admin in any order and interleaving.            *)
(***************************************************************************)
CancelCallers ==
    {u \in Identities : \/ u.role = "CUSTOMER" /\ u.id = InitCustomer(1)
                        \/ u.role = "CASHIER" /\ u.branchId = InitBranch(1)
                        \/ u.role = "ADMIN"}
\* the number 20
ExactAmount == [quoted |-> FALSE, text |-> <<"2", "0">>]

NextCancel ==
    \/ \E s \in Slots :
          /\ Free(s)
          /\ \E u \in CancelCallers, o \in Targets : ProcessPayment(s, u, o, ExactAmount, "CASH")
    \/ \E s \in Slots : ProcessPaymentCreate(s)
    \/ \E s \in Slots :
          /\ Free(s)
          /\ \E u \in CancelCallers, o \in Targets, t \in OrderStatus :
                UpdateOrderStatus(s, u, o, t)
    \/ \E s \in Slots : UpdateOrderStatusRefund(s)
    \/ \E s \in Slots : UpdateOrderStatusWrite(s)
    \/ \E u \in CancelCallers, o \in Targets : QuickActionCancelOrder(u, o)
    \/ \E s \in Slots : StoreError(s)
    \/ Deliver

SpecCancel == InitPay /\ [][NextCancel]_vars

(***************************************************************************)
(* The order specification: an empty order table, a menu of two items, and *)
(* createOrder and cart-sync requests one at a time, with catalog writes   *)
(* falling between any two of their store calls.                           *)
(***************************************************************************)
NewPrice == 1500
MissingMenuItem == 3
OrderCallers ==
    {u \in Identities : \/ u.role = "CUSTOMER" /\ u.id = 1
                        \/ u.role = "CASHIER" /\ u.branchId = 2
                        \/ u.role = "CHEF" /\ u.branchId = 1}
CatalogCallers ==
    {u \in Identities : \/ u.role = "BRANCH_MANAGER" /\ u.branchId = 1
                        \/ u.role = "CUSTOMER" /\ u.id = 1}
\* two units of item 1, one of item 2, and an item the menu does not have
ItemInputs ==
    {[menuItemId |-> 1, quantity |-> 2], [menuItemId |-> 2, quantity |-> 1],
     [menuItemId |-> MissingMenuItem, quantity |-> 1]}
ItemLists == UNION {[1..n -> ItemInputs] : n \in 0..MaxItems}
\* "42 Elm Street"
ElmStreet == <<"4", "2", " ", "E", "l", "m", " ", "S", "t", "r", "e", "e", "t">>
Addresses == {<<>>, ElmStreet}

InitOrder ==
    /\ orders = <<>>
    /\ orderItems = <<>>
    /\ payments = <<>>
    /\ menu = [m \in {1, 2} |-> [price |-> UnitPrice, isAvailable |-> TRUE]]
    /\ nextId = NextIdFrom(1, 1)
    /\ NoOffice
    /\ req = [s \in Slots |-> Idle]
    /\ resp = NoResp

NextOrder ==
    \/ /\ Free(1)
       /\ \E u \in OrderCallers, b \in Branches \cup {0}, items \in ItemLists,
             a \in Addresses, c \in {0, 2} :
              CreateOrder(1, u, b, items, a, c)
    \/ CreateOrderLookup(1)
    \/ CreateOrderWrite(1)
    \/ /\ Free(1)
       /\ \E u \in OrderCallers, items \in ItemLists : CartSync(1, u, items)
    \/ CartCreateOrder(1)
    \/ CartDeleteItems(1)
    \/ CartLookup(1)
    \/ CartInsertItem(1)
    \/ CartUpdateTotal(1)
    \/ \E u \in CatalogCallers : UpdateMenuItem(u, 1, NewPrice, "NONE")
    \/ \E u \in CatalogCallers, avail \in BOOLEAN : QuickActionToggleMenuItem(u, 2, avail)
    \/ StoreError(1)
    \/ Deliver

SpecOrder == InitOrder /\ [][NextOrder]_vars

(***************************************************************************)
(* The creation specification: createOrder requests one at a time from a   *)
(* customer, cashiers of each branch and of none, and a chef, on a menu    *)
(* whose second item is or is not available and that no one changes.       *)
(***************************************************************************)
CreateCallers ==
    {u \in Identities : \/ u.role = "CUSTOMER" /\ u.id = 1
                        \/ u.role = "CASHIER"
                        \/ u.role = "CHEF" /\ u.branchId = 1}
\* "99 Oak Avenue", "49" (one matching position with each branch) and
\* "7 Rd" (no matching position with either)
OakAvenue == <<"9", "9", " ", "O", "a", "k", " ", "A", "v", "e", "n", "u", "e">>
TieAddress == <<"4", "9">>
FarAddress == <<"7", " ", "R", "d">>
CreateAddresses == {<<>>, ElmStreet, OakAvenue, TieAddress, FarAddress}

InitCreate ==
    /\ orders = <<>>
    /\ orderItems = <<>>
    /\ payments = <<>>
    /\ \E avail \in BOOLEAN :
          menu = [m \in {1, 2} |-> [price |-> UnitPrice,
                                    isAvailable |-> IF m = 2 THEN avail ELSE TRUE]]
    /\ nextId = NextIdFrom(1, 1)
    /\ NoOffice
    /\ req = [s \in Slots |-> Idle]
    /\ resp = NoResp

NextCreate ==
    \/ /\ Free(1)
       /\ \E u \in CreateCallers, b \in Branches \cup {0}, items \in ItemLists,
             a \in CreateAddresses, c \in {0, 2} :
              CreateOrder(1, u, b, items, a, c)
    \/ CreateOrderLookup(1)
    \/ CreateOrderWrite(1)
    \/ StoreError(1)
    \/ Deliver

SpecCreate == InitCreate /\ [][NextCreate]_vars

(***************************************************************************)
(* The deletion specification: orders that are PENDING or DELIVERED, with  *)
(* their items or (as a failed cart sync leaves them) with none, paid or   *)
(* not, and deleteOrder requests in any order and interleaving.            *)
(***************************************************************************)
DeleteCallers ==
    {u \in Identities : \/ u.role \in {"ADMIN", "BRANCH_MANAGER", "CASHIER"}
                        \/ u.role = "CUSTOMER" /\ u.id = 1}
DeleteStatuses == {"PENDING", "DELIVERED"}

InitDelete ==
    /\ \E status \in [1..NumOrders -> DeleteStatuses], empty \in SUBSET (1..NumOrders) :
          /\ orders = [o \in 1..NumOrders |->
                          [status |-> status[o],
                           totalAmount |-> IF o \in empty THEN 0 ELSE OrderTotal,
                           customerId |-> InitCustomer(o), branchId |-> InitBranch(o)]]
          /\ orderItems = [o \in 1..NumOrders |->
                              IF o \in empty THEN <<>>
                              ELSE <<[menuItemId |-> 1, quantity |-> 2,
                                      unitPrice |-> UnitPrice, subtotal |-> OrderTotal]>>]
    /\ \E paid \in SUBSET (1..NumOrders) :
          /\ payments = PaidRows(paid)
          /\ nextId = NextIdFrom(NumOrders + 1, Cardinality(paid) + 1)
    /\ menu = [m \in {1} |-> [price |-> UnitPrice, isAvailable |-> TRUE]]
    /\ NoOffice
    /\ req = [s \in Slots |-> Idle]
    /\ resp = NoResp

NextDelete ==
    \/ \E s \in Slots, u \in DeleteCallers, o \in Targets : DeleteOrder(s, u, o)
    \/ \E s \in Slots : DeleteOrderRefund(s)
    \/ \E s \in Slots : DeleteOrderDelete(s)
    \/ \E s \in Slots : StoreError(s)
    \/ Deliver

SpecDelete == InitDelete /\ [][NextDelete]_vars

(***************************************************************************)
(* The query specification: orders of both customers in both branches,     *)
(* and getOrders requests from every identity with every query filter.     *)
(***************************************************************************)
QueryOrders == 2
QueryStatuses == {"PENDING", "DELIVERED"}

InitQuery ==
    /\ orders \in [1..QueryOrders -> [status : QueryStatuses, totalAmount : {OrderTotal},
                                      customerId : Customers, branchId : Branches]]
    /\ orderItems = [o \in 1..QueryOrders |->
                        <<[menuItemId |-> 1, quantity |-> 2, unitPrice |-> UnitPrice,
                           subtotal |-> OrderTotal]>>]
    /\ payments = <<>>
    /\ menu = [m \in {1, 2} |-> [price |-> UnitPrice, isAvailable |-> TRUE]]
    /\ nextId = NextIdFrom(QueryOrders + 1, 1)
    /\ NoOffice
    /\ req = [s \in Slots |-> Idle]
    /\ resp = NoResp

NextQuery ==
    \/ \E u \in Identities, b \in Branches \cup {NoFilter},
          t \in QueryStatuses \cup {"NONE"}, c \in Customers \cup {NoFilter} :
           GetOrders(u, b, t, c)
    \/ Deliver

SpecQuery == InitQuery /\ [][NextQuery]_vars

(***************************************************************************)
(* The inventory specification: one item in each branch, and inventory     *)
(* requests from every identity, one at a time, with quick actions falling *)
(* between any two of their store calls.                                   *)
(***************************************************************************)
InitQuantity == 3
NewQuantity == 7
Quantities == {NoQuantity, 0, NewQuantity}
InventoryTargets == {1, 2, MissingItem}

InitInventory ==
    /\ orders = <<>>
    /\ orderItems = <<>>
    /\ payments = <<>>
    /\ menu = <<>>
    /\ nextId = [NextIdFrom(1, 1) EXCEPT !.inventoryItem = 3]
    /\ inventory = [i \in {1, 2} |-> [branchId |-> i, quantity |-> InitQuantity]]
    /\ users = <<>>
    /\ now = 0
    /\ failedLogins = <<>>
    /\ req = [s \in Slots |-> Idle]
    /\ resp = NoResp

NextInventory ==
    \/ /\ Free(1)
       /\ \E u \in Identities, i \in InventoryTargets, q \in Quantities :
             UpdateInventoryItem(1, u, i, q)
    \/ UpdateInventoryItemWrite(1)
    \/ /\ Free(1)
       /\ \E u \in Identities, b \in Branches \cup {0}, q \in Quantities :
             CreateInventoryItem(1, u, b, q)
    \/ CreateInventoryItemWrite(1)
    \/ /\ Free(1)
       /\ \E u \in Identities, i \in InventoryTargets : DeleteInventoryItem(1, u, i)
    \/ DeleteInventoryItemWrite(1)
    \/ \E u \in Identities, i \in InventoryTargets, q \in Quantities :
          QuickActionUpdateInventory(u, i, q)
    \/ StoreError(1)
    \/ Deliver

SpecInventory == InitInventory /\ [][NextInventory]_vars

(***************************************************************************)
(* The login specification: one account, not locked, with four failed      *)
(* attempts or none on record, and login requests with the right and a     *)
(* wrong password in any order and interleaving as time passes.            *)
(***************************************************************************)
Ann == "ann"
\* "Start#01", "guess"
InitialPassword == <<"S", "t", "a", "r", "t", "#", "0", "1">>
WrongPassword == <<"g", "u", "e", "s", "s">>
LoginNames == {Ann, "bob", NoName}
LoginPasswords == {InitialPassword, WrongPassword, NoPassword}

AccountRow(failed) ==
    [username |-> Ann, password |-> hashPassword(InitialPassword), role |-> "CUSTOMER",
     branchId |-> NoBranch, failedLoginAttempts |-> failed, lockedUntil |-> NoDate,
     passwordResetToken |-> NoToken, resetTokenExpires |-> NoDate]

InitLogin ==
    /\ orders = <<>>
    /\ orderItems = <<>>
    /\ payments = <<>>
    /\ menu = <<>>
    /\ nextId = [NextIdFrom(1, 1) EXCEPT !.user = 2]
    /\ inventory = <<>>
    /\ \E failed \in {0, LockThreshold - 1} :
          /\ users = [u \in {1} |-> AccountRow(failed)]
          /\ failedLogins = [u \in {1} |-> failed]
    /\ now = 0
    /\ req = [s \in Slots |-> Idle]
    /\ resp = NoResp

NextLogin ==
    \/ \E s \in Slots :
          /\ Free(s)
          /\ \E n \in LoginNames, p \in LoginPasswords : Login(s, n, p)
    \/ \E s \in Slots : LoginCompare(s)
    \/ \E s \in Slots : LoginFail(s)
    \/ \E s \in Slots : LoginSucceed(s)
    \/ \E s \in Slots : StoreError(s)
    \/ Tick
    \/ Deliver

SpecLogin == InitLogin /\ [][NextLogin]_vars

(***************************************************************************)
(* The lock specification: one account one failed login short of the lock, *)
(* holding a reset token good for an hour, and login and reset requests in *)
(* any order and interleaving as time passes.                              *)
(***************************************************************************)
\* "Next!234", "Late#567", "a!1" (too short) and "passwords" (no digit, no
\* special character)
NewPassword == <<"N", "e", "x", "t", "!", "2", "3", "4">>
LaterPassword == <<"L", "a", "t", "e", "#", "5", "6", "7">>
ShortPassword == <<"a", "!", "1">>
PlainPassword == <<"p", "a", "s", "s", "w", "o", "r", "d", "s">>
AccountPasswords == {InitialPassword, WrongPassword}

InitLock ==
    /\ orders = <<>>
    /\ orderItems = <<>>
    /\ payments = <<>>
    /\ menu = <<>>
    /\ nextId = [NextIdFrom(1, 1) EXCEPT !.user = 2, !.resetToken = 2]
    /\ inventory = <<>>
    /\ users = [u \in {1} |->
                  [AccountRow(LockThreshold - 1) EXCEPT !.passwordResetToken = 1,
                                                        !.resetTokenExpires = ResetTokenLife]]
    /\ failedLogins = [u \in {1} |-> LockThreshold - 1]
    /\ now = 0
    /\ req = [s \in Slots |-> Idle]
    /\ resp = NoResp

NextLock ==
    \/ \E s \in Slots :
          /\ Free(s)
          /\ \E p \in AccountPasswords : Login(s, Ann, p)
    \/ \E s \in Slots : LoginCompare(s)
    \/ \E s \in Slots : LoginFail(s)
    \/ \E s \in Slots : LoginSucceed(s)
    \/ \E s \in Slots : ResetPassword(s, 1, NewPassword)
    \/ \E s \in Slots : ResetPasswordHash(s)
    \/ \E s \in Slots : ResetPasswordWrite(s)
    \/ \E s \in Slots : StoreError(s)
    \/ Tick
    \/ Deliver

SpecLock == InitLock /\ [][NextLock]_vars

(***************************************************************************)
(* The reset specification: one locked account, and reset-request and      *)
(* reset requests in any order and interleaving as time passes.            *)
(***************************************************************************)
UnknownToken == 9
ResetTokens == (1..MaxTokens) \cup {NoToken, UnknownToken}
ResetPasswords == {NewPassword, LaterPassword, ShortPassword, PlainPassword, NoPassword}

InitReset ==
    /\ orders = <<>>
    /\ orderItems = <<>>
    /\ payments = <<>>
    /\ menu = <<>>
    /\ nextId = [NextIdFrom(1, 1) EXCEPT !.user = 2]
    /\ inventory = <<>>
    /\ users = [u \in {1} |->
                  [AccountRow(LockThreshold) EXCEPT !.lockedUntil = lockDuration]]
    /\ failedLogins = [u \in {1} |-> LockThreshold]
    /\ now = 0
    /\ req = [s \in Slots |-> Idle]
    /\ resp = NoResp

NextReset ==
    \/ \E s \in Slots : RequestPasswordReset(s, Ann)
    \/ \E s \in Slots : RequestPasswordResetWrite(s)
    \/ \E s \in Slots :
          /\ Free(s)
          /\ \E k \in ResetTokens, p \in ResetPasswords : ResetPassword(s, k, p)
    \/ \E s \in Slots : ResetPasswordHash(s)
    \/ \E s \in Slots : ResetPasswordWrite(s)
    \/ \E s \in Slots : StoreError(s)
    \/ Tick
    \/ Deliver

SpecReset == InitReset /\ [][NextReset]_vars

(***************************************************************************)
(* The staff specification: a general manager, the manager of branch 1, a  *)
(* chef of branch 1 and a cashier of branch 2, and staff requests of the   *)
(* two managers in any order and interleaving.                             *)
(***************************************************************************)
StaffRow(username, role, branchId) ==
    [NoUser EXCEPT !.username = username, !.password = hashPassword(InitialPassword),
                   !.role = role, !.branchId = branchId]

InitialStaff ==
    <<StaffRow("gm", "GENERAL_MANAGER", NoBranch), StaffRow("bm", "BRANCH_MANAGER", 1),
      StaffRow("chef", "CHEF", 1), StaffRow("cash", "CASHIER", 2)>>

\* the callers, as their tokens name them
StaffCallers ==
    {[id |-> 1, role |-> "GENERAL_MANAGER", branchId |-> NoBranch],
     [id |-> 2, role |-> "BRANCH_MANAGER", branchId |-> 1]}

\* the ids of DELETE /api/staff/:id and of PUT /api/staff/:id
StaffTargets == (1..Len(InitialStaff)) \cup {MissingUser}
UpdateTargets == {3, MissingUser}

\* the bodies of POST /api/staff
CreateBodies ==
    {[NoData EXCEPT !.username = n, !.password = NewPassword, !.role = r, !.branchId = b] :
        n \in {"new", "chef"}, r \in {NoRole, "CHEF", "ADMIN"}, b \in Branches \cup {0}}

\* the bodies of PUT /api/staff/:id
UpdateBodies ==
    {[NoData EXCEPT !.role = "CHEF"], [NoData EXCEPT !.role = "ADMIN"],
     [NoData EXCEPT !.branchId = 2],
     [NoData EXCEPT !.username = "new", !.password = NewPassword]}

InitStaff ==
    /\ orders = <<>>
    /\ orderItems = <<>>
    /\ payments = <<>>
    /\ menu = <<>>
    /\ nextId = [NextIdFrom(1, 1) EXCEPT !.user = Len(InitialStaff) + 1]
    /\ inventory = <<>>
    /\ users = InitialStaff
    /\ failedLogins = [u \in DOMAIN InitialStaff |-> 0]
    /\ now = 0
    /\ req = [s \in Slots |-> Idle]
    /\ resp = NoResp

NextStaff ==
    \/ \E s \in Slots :
          /\ Free(s)
          /\ \E u \in StaffCallers, d \in CreateBodies : CreateStaffMember(s, u, d)
    \/ \E s \in Slots : CreateStaffMemberHash(s)
    \/ \E s \in Slots : CreateStaffMemberCreate(s)
    \/ \E s \in Slots :
          /\ Free(s)
          /\ \E u \in StaffCallers, i \in UpdateTargets, d \in UpdateBodies :
                UpdateStaffMember(s, u, i, d)
    \/ \E s \in Slots : UpdateStaffMemberUsername(s)
    \/ \E s \in Slots : UpdateStaffMemberHash(s)
    \/ \E s \in Slots : UpdateStaffMemberWrite(s)
    \/ \E s \in Slots :
          /\ Free(s)
          /\ \E u \in StaffCallers, i \in StaffTargets : DeleteStaffMember(s, u, i)
    \/ \E s \in Slots : DeleteStaffMemberDelete(s)
    \/ \E s \in Slots : StoreError(s)
    \/ Deliver

SpecStaff == InitStaff /\ [][NextStaff]_vars

(***************************************************************************)
(* The properties.                                                         *)
(***************************************************************************)
\* The transition table and the roles' permitted sets as the specification
\* states them.
StatedTransitions(s) ==
    CASE s = "PENDING" -> {"PREPARING", "CANCELLED", "DELIVERED"}
      [] s = "PREPARING" -> {"READY", "CANCELLED"}
      [] s = "READY" -> {"DELIVERED", "CANCELLED"}
      [] s = "DELIVERED" -> {}
      [] s = "CANCELLED" -> {}
StatedPermitted(role) ==
    CASE role = "CHEF" -> {"PREPARING", "READY"}
      [] role = "CASHIER" -> {"DELIVERED", "CANCELLED"}
Terminal == {"DELIVERED", "CANCELLED"}

\* resp answers an updateOrderStatus request of a CHEF or CASHIER for an
\* order of the store, and the store did not fail under it
StatusAnswered ==
    /\ resp.op = "updateOrderStatus"
    /\ resp.user.role \in {"CHEF", "CASHIER"}
    /\ resp.orderId \in DOMAIN orders
    /\ resp.code # "STORE_ERROR"

\* the status the order had when the request was decided: the one the
\* handler read, or, for a request refused before any read, the stored one
StatusAtRequest ==
    IF resp.cur # NoCur THEN resp.cur.status ELSE orders[resp.orderId].status

\* C1: for every current status s, requested status t and role CHEF or
\* CASHIER, updateOrderStatus (the store not failing) sets the order's
\* status to t if and only if t is in the stated transitions of s and in the
\* role's permitted set; in every other case it writes nothing and the
\* status stays s.
C1_AcceptedIffValidAndPermitted ==
    StatusAnswered =>
        LET s == StatusAtRequest
            t == resp.status
            allowed == t \in StatedTransitions(s) /\ t \in StatedPermitted(resp.user.role)
        IN /\ (resp.code = "OK") <=> allowed
           /\ allowed => resp.writes >= 1 /\ orders[resp.orderId].status = t
           /\ ~allowed => resp.writes = 0 /\ orders[resp.orderId].status = s

\* a READY order handed over by a cashier, and a chef's request refused for
\* the transition (DELIVERED orders take no READY)
C1_Witness ==
    /\ StatusAnswered
    /\ \/ resp.code = "OK" /\ resp.cur.status = "READY" /\ resp.status = "DELIVERED"
       \/ resp.code = "INVALID_TRANSITION" /\ resp.cur.status = "DELIVERED"

\* C2: once an order is DELIVERED or CANCELLED its status never changes
\* again, whichever operation the request arrives through.
C2_TerminalStatusNeverChanges ==
    [][\A o \in DOMAIN orders :
          (orders[o].status \in Terminal /\ o \in DOMAIN orders')
              => orders'[o].status = orders[o].status]_vars

\* C3: an updateOrderStatus request that cancels a paid order never leaves
\* its refund applied while the order is not CANCELLED, nor the order
\* CANCELLED without the refund: neither while it runs nor once it has
\* answered, a failed store write included.
C3_CancelAndRefundTogether ==
    /\ \A s \in Slots :
          (req[s].op = "updateOrderStatus" /\ req[s].writes >= 1)
              => orders[req[s].orderId].status = "CANCELLED"
    /\ (resp.op = "updateOrderStatus" /\ resp.status = "CANCELLED" /\ resp.cur.paid
          /\ resp.orderId \in DOMAIN orders)
          => /\ resp.writes >= 1 => orders[resp.orderId].status = "CANCELLED"
             /\ resp.code = "OK" => payments[resp.cur.payment.id].status = "REFUNDED"

\* C4: every status updateOrderStatus writes is a stated transition from the
\* status stored immediately before the write, also when requests for the
\* same order run concurrently.
C4_WriteIsValidFromStoredStatus ==
    [][(resp'.op = "updateOrderStatus" /\ resp'.code = "OK" /\ resp' # resp)
          => orders'[resp'.orderId].status
                \in StatedTransitions(orders[resp'.orderId].status)]_vars

\* C5: every order has at most one payment row.
C5_AtMostOnePayment ==
    \A o \in DOMAIN orders : Cardinality(PaymentsOf(o)) <= 1

\* two requests both read the order unpaid; one inserted, and the other's
\* insert was refused by the store
C5_Witness ==
    /\ resp.op = "processPayment"
    /\ resp.code = "STORE_ERROR"
    /\ resp.cur # NoCur /\ ~resp.cur.paid
    /\ Cardinality(PaymentsOf(resp.orderId)) = 1

\* resp answers a processPayment request (the route let it through to the
\* handler) for an order that had a payment when the request was decided
PaymentAnsweredForPaidOrder ==
    /\ resp.op = "processPayment"
    /\ resp.user.role \in {"CUSTOMER", "CASHIER"}
    /\ resp.orderId \in DOMAIN orders
    /\ IF resp.cur # NoCur THEN resp.cur.paid ELSE HasPayment(resp.orderId)

\* C6 as stated: processPayment on an order that already has a payment
\* fails with the duplicate-payment error, creates no payment row and
\* leaves the existing payment unchanged.
C6_DuplicateAlwaysReported ==
    PaymentAnsweredForPaidOrder =>
        /\ resp.code = "DUPLICATE_PAYMENT"
        /\ resp.writes = 0
        /\ Cardinality(PaymentsOf(resp.orderId)) = 1

\* the caller passes the handler's ownership and branch checks
PaymentCallerAuthorized ==
    /\ resp.user.role = "CUSTOMER" => orders[resp.orderId].customerId = resp.user.id
    /\ resp.user.role = "CASHIER" => orders[resp.orderId].branchId = resp.user.branchId

\* C6 amended: processPayment on an order that already has a payment always
\* fails, creates no payment row and leaves the existing payment's amount,
\* method and status unchanged; the error is the duplicate-payment error
\* exactly when the request carries an amount and a method, the read of the
\* order succeeds and the caller passes the ownership and branch checks (the
\* missing-input error, the store error and the unauthorized error come
\* first).
C6_DuplicateRejected ==
    PaymentAnsweredForPaidOrder =>
        /\ resp.code \in {"MISSING_INPUT", "STORE_ERROR", "UNAUTHORIZED", "DUPLICATE_PAYMENT"}
        /\ resp.writes = 0
        /\ Cardinality(PaymentsOf(resp.orderId)) = 1
        /\ resp.cur # NoCur =>
              LET p == resp.cur.payment
              IN /\ p.id \in DOMAIN payments
                 /\ payments[p.id] = [orderId |-> resp.orderId, amount |-> p.amount,
                                      method |-> p.method, status |-> p.status]
        /\ (resp.code = "DUPLICATE_PAYMENT")
              <=> (~Falsy(resp.amount) /\ resp.method # NoMethod
                   /\ resp.cur # NoCur /\ PaymentCallerAuthorized)

\* a second payment of the owner refused as a duplicate
C6_Witness ==
    /\ PaymentAnsweredForPaidOrder
    /\ resp.code = "DUPLICATE_PAYMENT"
    /\ resp.user.role = "CUSTOMER"

\* C8: a CHEF or CASHIER of another branch than the order's never changes
\* the order's status: the request is refused and nothing is written.
C8_OtherBranchStaffDenied ==
    (/\ resp.op = "updateOrderStatus"
     /\ resp.user.role \in {"CHEF", "CASHIER"}
     /\ resp.orderId \in DOMAIN orders
     /\ orders[resp.orderId].branchId # resp.user.branchId)
        => resp.code # "OK" /\ resp.writes = 0

\* C9: no request of a CUSTOMER changes the status of an order, through any
\* route.
C9_CustomerNeverChangesStatus ==
    [][resp'.user.role = "CUSTOMER"
          => \A o \in DOMAIN orders \cap DOMAIN orders' :
                orders'[o].status = orders[o].status]_vars

\* C7: whenever no order-writing request is in flight (each one has run to
\* its end or failed midway), every stored order's totalAmount is the sum of
\* its items' subtotals, and every item's subtotal is its unit price times its
\* quantity, whichever path (createOrder, cart sync) wrote the order.
C7_TotalIsSumOfSubtotals ==
    (\A s \in Slots : req[s].pc = "idle") =>
        \A o \in DOMAIN orders :
            /\ orders[o].totalAmount = SumSubtotals(orderItems[o])
            /\ \A i \in 1..Len(orderItems[o]) :
                  orderItems[o][i].subtotal =
                      orderItems[o][i].unitPrice * orderItems[o][i].quantity

\* C10: getOrders never answers with an order outside the caller's scope: a
\* CUSTOMER gets only orders whose customerId is the caller's id, and a CHEF,
\* CASHIER or BRANCH_MANAGER gets only orders of the caller's own branch (none
\* at all when the caller has no branch), whatever query filters were sent.
C10_ResultWithinCallerScope ==
    resp.op = "getOrders" =>
        \A o \in resp.result :
            /\ resp.user.role = "CUSTOMER" => orders[o].customerId = resp.user.id
            /\ resp.user.role \in {"CHEF", "CASHIER", "BRANCH_MANAGER"} =>
                  /\ resp.user.branchId # NoBranch
                  /\ orders[o].branchId = resp.user.branchId

\* What a createOrder request did, read off its response.
CreateAnswered == resp.op = "createOrder"
CreateSucceeded == CreateAnswered /\ resp.code = "OK"

\* C11: an order that createOrder creates for a CUSTOMER caller has the
\* caller's id as customerId, whatever customerId the body names, and every
\* order createOrder creates is stored with status PENDING.
C11_CustomerOrdersForSelfPending ==
    CreateSucceeded =>
        /\ OrderExists(resp.orderId)
        /\ orders[resp.orderId].status = "PENDING"
        /\ resp.user.role = "CUSTOMER" => orders[resp.orderId].customerId = resp.user.id

\* a customer's request naming another customer has created an order
C11_Witness ==
    /\ CreateSucceeded
    /\ resp.user.role = "CUSTOMER"
    /\ resp.body.customerId \notin {0, resp.user.id}
    /\ orders[resp.orderId].customerId = resp.user.id
    /\ orders[resp.orderId].status = "PENDING"

\* C12: every order a CASHIER creates has the cashier's own branch as
\* branchId, whichever branch the body names or the delivery address matches.
C12_CashierOrdersOwnBranch ==
    (CreateSucceeded /\ resp.user.role = "CASHIER") =>
        orders[resp.orderId].branchId = resp.user.branchId

\* The resolution rule as stated: the number of positions, up to the shorter
\* length, at which the two normalized strings agree; the branch with the
\* highest such number, the earliest in list order among equals.
StatedScore(b, address) ==
    LET x == normalize(BranchAddress(b))
        y == normalize(address)
    IN Cardinality({i \in DOMAIN x \cap DOMAIN y : x[i] = y[i]})
StatedBranch(body) ==
    IF body.branchId # 0 THEN body.branchId
    ELSE IF body.deliveryAddress = <<>> THEN 0
    ELSE LET a == body.deliveryAddress
             i == CHOOSE k \in DOMAIN BranchList :
                     \A j \in DOMAIN BranchList :
                        \/ StatedScore(BranchList[k], a) > StatedScore(BranchList[j], a)
                        \/ /\ StatedScore(BranchList[k], a) = StatedScore(BranchList[j], a)
                           /\ k <= j
         IN BranchList[i]

\* C13: when createOrder reaches branch resolution (permitted caller, item
\* list not empty), the branch it works with is the body's branchId when
\* given, else the best-scoring branch for the delivery address (earliest in
\* list order among equal scores, the first branch when all scores are zero);
\* an order it creates is stored under that branch; with neither branchId nor
\* address it answers the missing-branch error and has created nothing.
C13_BranchResolvedAsStated ==
    (CreateAnswered /\ authorizeRole({"CUSTOMER", "CASHIER"}, resp.user) /\ Len(resp.items) > 0) =>
        /\ resp.branchId = StatedBranch(resp.body)
        /\ resp.code = "OK" => orders[resp.orderId].branchId = StatedBranch(resp.body)
        /\ resp.code = "MISSING_BRANCH" <=> StatedBranch(resp.body) = 0
        /\ resp.code = "MISSING_BRANCH" => resp.orderId = 0 /\ resp.writes = 0

\* an address that scores the same, above zero, with both branches has been
\* resolved to the first of them and the order stored there
C13_Witness ==
    /\ CreateSucceeded
    /\ resp.body.branchId = 0
    /\ resp.body.deliveryAddress = TieAddress
    /\ StatedScore(1, TieAddress) = StatedScore(2, TieAddress)
    /\ StatedScore(1, TieAddress) > 0
    /\ orders[resp.orderId].branchId = BranchList[1]

\* an item the menu does not have, or has as unavailable
ItemFails(item) ==
    \/ item.menuItemId \notin DOMAIN menu
    \/ ~menu[item.menuItemId].isAvailable
RequestFails(items) ==
    \/ Len(items) = 0
    \/ \E i \in DOMAIN items : ItemFails(items[i])

\* C14: on a menu that does not change, a createOrder request whose item list
\* is empty or holds, at any position, an item that is missing or unavailable
\* is answered with an error and has written nothing; so every stored order
\* has at least one item and only items the menu has as available, and an
\* order created holds exactly the items requested.
C14_FailingItemCreatesNothing ==
    /\ (CreateAnswered /\ RequestFails(resp.items)) =>
          /\ resp.code # "OK"
          /\ resp.orderId = 0
          /\ resp.writes = 0
    /\ \A o \in DOMAIN orders :
          /\ Len(orderItems[o]) > 0
          /\ \A i \in DOMAIN orderItems[o] : ~ItemFails(orderItems[o][i])
    /\ CreateSucceeded =>
          /\ Len(orderItems[resp.orderId]) = Len(resp.items)
          /\ \A i \in DOMAIN resp.items :
                /\ orderItems[resp.orderId][i].menuItemId = resp.items[i].menuItemId
                /\ orderItems[resp.orderId][i].quantity = resp.items[i].quantity

\* a request whose first item is fine and whose second is unavailable has been
\* refused with nothing stored
C14_Witness ==
    /\ CreateAnswered
    /\ Len(resp.items) = 2
    /\ ~ItemFails(resp.items[1])
    /\ resp.items[2].menuItemId \in DOMAIN menu
    /\ ~menu[resp.items[2].menuItemId].isAvailable
    /\ resp.code = "ITEM_UNAVAILABLE"
    /\ orders = <<>>
    /\ orderItems = <<>>

\* C15: no step changes the items an order already has while the order stays
\* stored: each item an order holds before the step is still there after it,
\* at the same place, with the same menu item, quantity, unit price and
\* subtotal (a cart sync included, whoever created the order).
C15_StoredItemsNeverRewritten ==
    [][\A o \in DOMAIN orders \cap DOMAIN orders' :
          \A i \in DOMAIN orderItems[o] :
             /\ i \in DOMAIN orderItems'[o]
             /\ orderItems'[o][i] = orderItems[o][i]]_vars

\* a processPayment request, let through by the route, of a CUSTOMER on
\* someone else's order or of a CASHIER on an order outside the cashier's
\* branch (a cashier without a branch is outside every branch)
PaymentOutOfScope(r) ==
    /\ r.op = "processPayment"
    /\ r.orderId \in DOMAIN orders
    /\ \/ r.user.role = "CUSTOMER" /\ orders[r.orderId].customerId # r.user.id
       \/ r.user.role = "CASHIER" /\ orders[r.orderId].branchId # r.user.branchId

\* C16 as stated: every such request fails as unauthorized and leaves the
\* store unchanged.
C16_OutOfScopeAlwaysUnauthorized ==
    PaymentOutOfScope(resp) => resp.code = "UNAUTHORIZED" /\ resp.writes = 0

\* C16 amended: no such request ever creates a payment: the step that answers
\* it leaves the store as it was and the answer is an error.  The error is
\* the missing-input error when the body lacks amount or method, else the
\* unauthorized error unless the read of the order failed (store error).
C16_OutOfScopePaymentDenied ==
    [][(resp = NoResp /\ PaymentOutOfScope(resp')) =>
          /\ store' = store
          /\ resp'.writes = 0
          /\ IF Falsy(resp'.amount) \/ resp'.method = NoMethod
             THEN resp'.code = "MISSING_INPUT"
             ELSE resp'.code \in {"UNAUTHORIZED", "STORE_ERROR"}]_vars

\* a cashier who has no branch, with the right amount for an unpaid order,
\* has been refused as unauthorized and the order is still unpaid
C16_Witness ==
    /\ PaymentOutOfScope(resp)
    /\ resp.user.role = "CASHIER"
    /\ resp.user.branchId = NoBranch
    /\ ToNumber(resp.amount) = orders[resp.orderId].totalAmount
    /\ resp.method # NoMethod
    /\ resp.code = "UNAUTHORIZED"
    /\ ~HasPayment(resp.orderId)

\* C17: a payment that processPayment has just created is COMPLETED and its
\* amount is the number the client supplied, within one cent of the order's
\* totalAmount.
C17_CreatedPaymentMatchesTotal ==
    (resp.op = "processPayment" /\ resp.code = "OK") =>
        LET p == payments[PaymentIdOf(resp.orderId)]
        IN /\ p.status = "COMPLETED"
           /\ p.amount = ToNumber(resp.amount)
           /\ p.amount # NaN
           /\ Abs(p.amount - orders[resp.orderId].totalAmount) <= 1

\* the payment rows of order o, as a set of rows with their ids
PaymentRowsOf(o) == {<<p, payments[p]>> : p \in PaymentsOf(o)}

\* C18: deleteOrder never removes an order and never changes its payment or
\* its items when the caller is not an ADMIN or BRANCH_MANAGER or when the
\* order is DELIVERED: no handler of another role gets past the route, a
\* DELIVERED order stays stored with its items and payment as they are, and
\* the step that answers such a request changes nothing and answers an error.
C18_DeleteRefusedForRoleOrDelivered ==
    /\ [](\A s \in Slots :
             (req[s].op = "deleteOrder") =>
                 (/\ req[s].user.role \in {"ADMIN", "BRANCH_MANAGER"}
                  /\ req[s].cur.status # "DELIVERED"))
    /\ [][/\ \A o \in DOMAIN orders :
                (orders[o].status = "DELIVERED") =>
                    (/\ o \in DOMAIN orders'
                     /\ orders'[o] = orders[o]
                     /\ orderItems'[o] = orderItems[o]
                     /\ PaymentRowsOf(o)' = PaymentRowsOf(o))
          /\ (/\ resp = NoResp
              /\ resp'.op = "deleteOrder"
              /\ \/ resp'.user.role \notin {"ADMIN", "BRANCH_MANAGER"}
                 \/ /\ resp'.orderId \in DOMAIN orders
                    /\ orders[resp'.orderId].status = "DELIVERED")
             => (/\ store' = store
                 /\ resp'.writes = 0
                 /\ resp'.code \in {"FORBIDDEN", "CANNOT_DELETE_DELIVERED", "STORE_ERROR"}
                 /\ (resp'.user.role \notin {"ADMIN", "BRANCH_MANAGER"})
                       => (resp'.code = "FORBIDDEN"))]_vars

\* an ADMIN's request to delete a paid DELIVERED order has been refused, the
\* order and its COMPLETED payment still stored
C18_Witness ==
    /\ resp.op = "deleteOrder"
    /\ resp.user.role = "ADMIN"
    /\ resp.code = "CANNOT_DELETE_DELIVERED"
    /\ OrderExists(resp.orderId)
    /\ orders[resp.orderId].status = "DELIVERED"
    /\ orderItems[resp.orderId] # <<>>
    /\ HasPayment(resp.orderId)
    /\ payments[PaymentIdOf(resp.orderId)].status = "COMPLETED"

\* C19: a deleteOrder request of an ADMIN or BRANCH_MANAGER that found the
\* order stored and not DELIVERED, and was not stopped by a failed read, ends
\* with the order and its items gone; and no deleteOrder request ends with
\* the order still stored after it marked the order's payment REFUNDED.
C19_DeleteRemovesOrRefundsNothing ==
    (/\ resp.op = "deleteOrder"
     /\ resp.cur # NoCur
     /\ resp.cur.status # "DELIVERED")
        => /\ (resp.writes > 0) => ~OrderExists(resp.orderId)
           /\ (resp.code = "OK") => (/\ ~OrderExists(resp.orderId)
                                     /\ resp.orderId \notin DOMAIN orderItems)

\* C20: a BRANCH_MANAGER's deleteOrder request for an order of another
\* branch (or from a manager with no branch) is denied: it writes nothing,
\* so the order stays stored and its payment is not refunded.
C20_OtherBranchManagerDenied ==
    (/\ resp.op = "deleteOrder"
     /\ resp.user.role = "BRANCH_MANAGER"
     /\ resp.orderId \in 1..NumOrders
     /\ InitBranch(resp.orderId) # resp.user.branchId)
        => /\ resp.code # "OK"
           /\ resp.writes = 0
           /\ OrderExists(resp.orderId)

\* a CHEF's request for DELIVERED, answered while the order is PREPARING
ChefDeliveredOnPreparing(r) ==
    /\ r.op = "updateOrderStatus"
    /\ r.user.role = "CHEF"
    /\ r.status = "DELIVERED"
    /\ r.orderId \in DOMAIN orders
    /\ orders[r.orderId].status = "PREPARING"

\* C21 as stated: a CHEF's request for DELIVERED on a PREPARING order is
\* rejected with the invalid-transition error and the order is unchanged.
C21_ChefDeliveredInvalidTransition ==
    ChefDeliveredOnPreparing(resp) =>
        resp.code = "INVALID_TRANSITION" /\ resp.writes = 0

\* C21 amended: a CHEF's request for DELIVERED on a PREPARING order is
\* rejected with the role error (a CHEF may request PREPARING and READY
\* only), which the handler answers before it reads the order; the step that
\* answers it leaves the store, and so the order, unchanged.
C21_ChefDeliveredForbidden ==
    [][(resp = NoResp /\ ChefDeliveredOnPreparing(resp')) =>
          /\ store' = store
          /\ resp'.code = "FORBIDDEN"
          /\ resp'.writes = 0
          /\ resp'.cur = NoCur]_vars

\* a chef has asked for DELIVERED on an order that is PREPARING and has been
\* refused for the role
C21_Witness ==
    /\ ChefDeliveredOnPreparing(resp)
    /\ resp.code = "FORBIDDEN"
    /\ orders[resp.orderId].status = "PREPARING"

\* the answers with which updateOrderStatus rejects a request
StatusRejections == {"FORBIDDEN", "NOT_FOUND", "INVALID_TRANSITION"}

\* C22: a rejected updateOrderStatus request (role not permitted, order not
\* found, invalid transition) writes nothing: the step that answers it leaves
\* every order's status and every payment's status as they were, and the
\* request has performed no store write before it; a request that is past its
\* checks and about to write is one its role may make and the table allows
\* from the status it read.
C22_RejectedStatusRequestWritesNothing ==
    /\ [](\A s \in Slots :
             (req[s].op = "updateOrderStatus") =>
                 (/\ req[s].status \in StatedPermitted(req[s].user.role)
                  /\ req[s].status \in StatedTransitions(req[s].cur.status)))
    /\ [][(/\ resp = NoResp
           /\ resp'.op = "updateOrderStatus"
           /\ resp'.code \in StatusRejections)
             => (/\ store' = store
                 /\ resp'.writes = 0)]_vars

\* a cashier's request to cancel a paid order that is already DELIVERED has
\* been rejected for the transition, and the payment is still COMPLETED
C22_Witness ==
    /\ resp.op = "updateOrderStatus"
    /\ resp.code = "INVALID_TRANSITION"
    /\ resp.status = "CANCELLED"
    /\ resp.cur.status = "DELIVERED"
    /\ resp.cur.paid
    /\ orders[resp.orderId].status = "DELIVERED"
    /\ payments[resp.cur.payment.id].status = "COMPLETED"

\* the roles whose inventory work is confined to their own branch
BranchStaff == {"CHEF", "CASHIER", "BRANCH_MANAGER"}

\* the branch of inventory item i in the table inv
InventoryBranch(inv, i) == inv[i].branchId

\* C23: no step answering a request of a CHEF, CASHIER or BRANCH_MANAGER
\* creates, changes or deletes an inventory item of another branch than the
\* caller's, whichever route the request came through (the inventory routes
\* or the quick action update_inventory).
C23_BranchStaffWriteOwnInventoryOnly ==
    [][resp'.user.role \in BranchStaff =>
          /\ \A i \in DOMAIN inventory :
                (i \notin DOMAIN inventory' \/ inventory'[i] # inventory[i])
                    => InventoryBranch(inventory, i) = resp'.user.branchId
          /\ \A i \in DOMAIN inventory' \ DOMAIN inventory :
                InventoryBranch(inventory', i) = resp'.user.branchId]_vars

\* C24: an account is locked after five failed logins, concurrent ones
\* included: once five logins with a wrong password have been processed for
\* an account since its last successful login or password reset, the account
\* has a lockedUntil, so that a sixth is never processed for an account that
\* has not been locked.
C24_LockedAfterFiveWrongPasswords ==
    \A u \in DOMAIN users :
        failedLogins[u] >= LockThreshold => users[u].lockedUntil # NoDate

\* a login request for the account named name arrives in this step: its
\* handler reads the account and either answers at once or suspends at
\* comparePassword
LoginArrives(name) ==
    /\ resp = NoResp
    /\ \/ /\ req' = req
          /\ resp'.op = "login"
          /\ resp'.data.username = name
       \/ \E s \in Slots :
             /\ req[s] = Idle
             /\ req'[s].op = "login"
             /\ req'[s].data.username = name

\* C29: a login attempt that arrives while the account's lockedUntil is in
\* the future is rejected at once, whatever the password, and leaves the
\* user rows (failedLoginAttempts and lockedUntil with them) as they were;
\* and failedLoginAttempts goes back to 0 only in the step in which a login
\* or a resetPassword for that account answers with success, never as time
\* passes.  The attempt is judged at the moment its handler reads the
\* account.
C29_LockedAccountRejectsLogin ==
    /\ [][\A u \in DOMAIN users :
             (users[u].lockedUntil > now /\ LoginArrives(users[u].username))
                 => /\ req' = req
                    /\ resp'.code \in {"LOCKED", "STORE_ERROR"}
                    /\ users' = users]_vars
    /\ [][\A u \in DOMAIN users :
             (users[u].failedLoginAttempts # 0 /\ users'[u].failedLoginAttempts = 0)
                 => /\ resp'.code = "OK"
                    /\ resp'.op \in {"login", "resetPassword"}
                    /\ resp'.target = u]_vars

\* a login with the account's own password has just been answered "locked"
\* while lockedUntil is in the future
C29_Witness ==
    /\ resp.op = "login"
    /\ resp.code = "LOCKED"
    /\ resp.target \in DOMAIN users
    /\ comparePassword(resp.data.password, users[resp.target].password)
    /\ users[resp.target].lockedUntil > now
    /\ users[resp.target].failedLoginAttempts >= LockThreshold

\* C30: a reset token changes a password at most once: a resetPassword
\* answers with success, having written the new password, only in a step in
\* which its token is still the token stored with the user, so that once a
\* resetPassword has succeeded and cleared the token, no request presenting
\* the same token changes the password again.
C30_ResetTokenUsedOnce ==
    [][(resp = NoResp /\ resp'.op = "resetPassword" /\ resp'.code = "OK")
          => users[resp'.target].passwordResetToken = resp'.data.token]_vars

\* the rows of the table after that are new or differ from the table before
RowsWritten(before, after) ==
    {u \in DOMAIN after : u \notin DOMAIN before \/ after[u] # before[u]}

\* C25: staff operations by a BRANCH_MANAGER stay inside the manager's
\* branch and below the manager's role.  In the step that answers a
\* BRANCH_MANAGER's request: createStaffMember writes nothing but one new
\* user of role CHEF or CASHIER in the manager's own branch;
\* updateStaffMember leaves every user's role and branch as they were and
\* writes no row but its target, which it found in the manager's branch;
\* deleteStaffMember removes no row but its target, which it found in the
\* manager's branch with a role below BRANCH_MANAGER.  The target is judged
\* as the handler read it.
C25_BranchManagerStaffOps ==
    [][(resp = NoResp /\ resp'.user.role = "BRANCH_MANAGER") =>
          LET manager == resp'.user
              target == resp'.target
              found == resp'.row
          IN /\ resp'.op = "createStaffMember" =>
                  /\ DOMAIN users \subseteq DOMAIN users'
                  /\ \A u \in RowsWritten(users, users') :
                        /\ u \notin DOMAIN users
                        /\ users'[u].role \in {"CHEF", "CASHIER"}
                        /\ manager.branchId # NoBranch
                        /\ users'[u].branchId = manager.branchId
             /\ resp'.op = "updateStaffMember" =>
                  /\ DOMAIN users' = DOMAIN users
                  /\ \A u \in DOMAIN users :
                        /\ users'[u].role = users[u].role
                        /\ users'[u].branchId = users[u].branchId
                  /\ \A u \in RowsWritten(users, users') :
                        /\ u = target
                        /\ found.branchId = manager.branchId
             /\ resp'.op = "deleteStaffMember" =>
                  /\ RowsWritten(users, users') = {}
                  /\ \A u \in DOMAIN users \ DOMAIN users' :
                        /\ u = target
                        /\ found.branchId = manager.branchId
                        /\ found.role \notin HigherPrivileges("BRANCH_MANAGER")]_vars

\* the manager of branch 1 has just deleted a chef or cashier of that branch
C25_Witness ==
    /\ resp.op = "deleteStaffMember"
    /\ resp.code = "OK"
    /\ resp.user.role = "BRANCH_MANAGER"
    /\ resp.row.role \in {"CHEF", "CASHIER"}
    /\ resp.row.branchId = resp.user.branchId
    /\ resp.target \notin DOMAIN users

\* C26: a GENERAL_MANAGER creates and manages CHEF, CASHIER and
\* BRANCH_MANAGER only: no step that answers a GENERAL_MANAGER's staff
\* request gives a user the role ADMIN or GENERAL_MANAGER (a new user or a
\* user whose role it changes), and none removes a user whose role is ADMIN
\* or GENERAL_MANAGER.
C26_GeneralManagerStaffOps ==
    [][(resp = NoResp /\ resp'.user.role = "GENERAL_MANAGER") =>
          /\ \A u \in RowsWritten(users, users') :
                users'[u].role \in HigherPrivileges("GENERAL_MANAGER")
                    => u \in DOMAIN users /\ users[u].role = users'[u].role
          /\ \A u \in DOMAIN users \ DOMAIN users' :
                users[u].role \notin HigherPrivileges("GENERAL_MANAGER")]_vars

\* C27: no order item is stored for a menu item that is missing or not
\* available at the moment it is stored: in every step that adds an item to
\* an order (createOrder's nested create, the cart sync's orderItem.create),
\* the item's menu item exists and has isAvailable = true in the menu of
\* that moment.
C27_StoredItemAvailableWhenStored ==
    [][\A o \in DOMAIN orderItems' : \A i \in DOMAIN orderItems'[o] :
          (o \notin DOMAIN orderItems \/ i > Len(orderItems[o]))
              => LET m == orderItems'[o][i].menuItemId
                 IN MenuItemExists(m) /\ menu[m].isAvailable]_vars

\* C28: in every reachable state an order that is CANCELLED and has a
\* payment has that payment REFUNDED, after any sequence and interleaving of
\* processPayment, updateOrderStatus and the quick action cancel_order.
C28_CancelledOrderPaymentRefunded ==
    \A o \in DOMAIN orders :
        (orders[o].status = "CANCELLED" /\ HasPayment(o))
            => payments[PaymentIdOf(o)].status = "REFUNDED"

====
